---- MODULE Spec2Model ----
(***************************************************************************)
(* Model of the clawface gateway's usage accounting core:                  *)
(*   - ClaudeLogScanner  (gateway/src/claudeLogScanner.ts)                 *)
(*   - CodexLogScanner   (gateway/src/codexLogScanner.ts)                  *)
(*   - model normalizer  (gateway/src/modelNormalizer.ts)                  *)
(*   - AiUsageTracker    (gateway/src/aiUsageTracker.ts), the ledger       *)
(*                                                                         *)
(* Strings that the code slices or matches (model names) are sequences of  *)
(* one-character strings.  A log file is a sequence of bytes; one JSON     *)
(* line occupies LineBytes bytes followed by a newline byte, so that byte  *)
(* offsets, partially written lines and reads that start in the middle of  *)
(* a line are all representable.                                           *)
(***************************************************************************)
EXTENDS Integers, Sequences, FiniteSets, TLC

\* ------------------------------------------------------------------------
\* Bounds of the model
\* ------------------------------------------------------------------------
\* Most lines the log writer appends to the file in one behaviour.
MaxLines == 2
\* Bytes of one JSON line in front of its newline.
LineBytes == 2
\* Longest fragment (in lines) of the two-fragment scenarios.
MaxFrag == 2
\* Most logRequest calls issued directly against the ledger.
MaxRequests == 2
\* Last instant of the ledger's clock.
MaxNow == 3

\* Most deletions and replacements of the file in one behaviour.
MaxReplaces == 1
\* Most scan() calls in one behaviour, where they are counted.
MaxPasses == 3
\* Latest modification time a replacement file can carry.
MaxMtime == 1
\* Days of a calendar month of the summaries' clock.
DaysPerMonth == 8

\* ------------------------------------------------------------------------
\* Generic helpers
\* ------------------------------------------------------------------------
Max(a, b) == IF a >= b THEN a ELSE b
Min(a, b) == IF a <= b THEN a ELSE b

\* s.startsWith(p)
StartsWith(s, p) ==
  /\ Len(p) <= Len(s)
  /\ SubSeq(s, 1, Len(p)) = p

\* s.indexOf(p): 0-based index of the first occurrence, -1 when absent
IndexOf(s, p) ==
  LET hits == {i \in 1..(Len(s) - Len(p) + 1) : SubSeq(s, i, i + Len(p) - 1) = p}
  IN  IF hits = {} THEN -1
      ELSE (CHOOSE i \in hits : \A j \in hits : i <= j) - 1

\* s.lastIndexOf(p): 0-based index of the last occurrence, -1 when absent
LastIndexOf(s, p) ==
  LET hits == {i \in 1..(Len(s) - Len(p) + 1) : SubSeq(s, i, i + Len(p) - 1) = p}
  IN  IF hits = {} THEN -1
      ELSE (CHOOSE i \in hits : \A j \in hits : i >= j) - 1

\* s.slice(from) and s.slice(0, to), 0-based as in JavaScript
SliceFrom(s, from) == SubSeq(s, from + 1, Len(s))
SliceTo(s, to) == SubSeq(s, 1, to)

\* s.trim(): the only whitespace character of the model is " "
Trim(s) ==
  LET keep == {i \in 1..Len(s) : s[i] # " "}
  IN  IF keep = {} THEN <<>>
      ELSE SubSeq(s, CHOOSE i \in keep : \A j \in keep : i <= j,
                     CHOOSE i \in keep : \A j \in keep : i >= j)

Digits == {"0", "1", "2", "3", "4", "5", "6", "7", "8", "9"}
IsDigits(s) == Len(s) > 0 /\ \A i \in 1..Len(s) : s[i] \in Digits

\* ------------------------------------------------------------------------
\* Model normalizer (modelNormalizer.ts)
\* ------------------------------------------------------------------------
KNOWN_CLAUDE_BASES ==
  { <<"c", "l", "a", "u", "d", "e", "-", "h", "a", "i", "k", "u", "-", "4", "-", "5">>,
    <<"c", "l", "a", "u", "d", "e", "-", "o", "p", "u", "s", "-", "4", "-", "5">>,
    <<"c", "l", "a", "u", "d", "e", "-", "s", "o", "n", "n", "e", "t", "-", "4", "-", "5">>,
    <<"c", "l", "a", "u", "d", "e", "-", "o", "p", "u", "s", "-", "4", "-", "2", "0", "2", "5", "0", "5", "1", "4">>,
    <<"c", "l", "a", "u", "d", "e", "-", "o", "p", "u", "s", "-", "4", "-", "1">>,
    <<"c", "l", "a", "u", "d", "e", "-", "s", "o", "n", "n", "e", "t", "-", "4", "-", "2", "0", "2", "5", "0", "5", "1", "4">>,
    <<"c", "l", "a", "u", "d", "e", "-", "o", "p", "u", "s", "-", "4", "-", "6">> }

KNOWN_CODEX_BASES ==
  { <<"g", "p", "t", "-", "5">>,
    <<"g", "p", "t", "-", "5", ".", "1">>,
    <<"g", "p", "t", "-", "5", ".", "2">> }

OpenaiPrefix == <<"o", "p", "e", "n", "a", "i", "/">>
CodexSuffix == <<"-", "c", "o", "d", "e", "x">>
AnthropicPrefix == <<"a", "n", "t", "h", "r", "o", "p", "i", "c", ".">>
ClaudeDash == <<"c", "l", "a", "u", "d", "e", "-">>

\* "if (trimmed.startsWith(prefix)) trimmed = trimmed.slice(prefix.length)"
StripPrefix(trimmed, prefix) ==
  IF StartsWith(trimmed, prefix) THEN SliceFrom(trimmed, Len(prefix)) ELSE trimmed

\* "Strip -codex suffix if the base name is a known model"
StripCodexSuffix(trimmed) ==
  IF /\ IndexOf(trimmed, CodexSuffix) # -1
     /\ SliceTo(trimmed, IndexOf(trimmed, CodexSuffix)) \in KNOWN_CODEX_BASES
  THEN SliceTo(trimmed, IndexOf(trimmed, CodexSuffix))
  ELSE trimmed

normalizeCodexModel(raw) == StripCodexSuffix(StripPrefix(Trim(raw), OpenaiPrefix))

\* trimmed.match(/-v\d+:\d+$/): length of the match, 0 when there is none
VersionMatchLen(s) ==
  LET starts == {i \in 1..Len(s) :
                   /\ i + 1 <= Len(s)
                   /\ s[i] = "-" /\ s[i + 1] = "v"
                   /\ \E c \in (i + 2)..Len(s) :
                        /\ s[c] = ":"
                        /\ IsDigits(SubSeq(s, i + 2, c - 1))
                        /\ IsDigits(SubSeq(s, c + 1, Len(s)))}
  IN  IF starts = {} THEN 0
      ELSE Len(s) - (CHOOSE i \in starts : \A j \in starts : i <= j) + 1

\* trimmed.match(/-\d{8}$/): length of the match, 0 when there is none
DateMatchLen(s) ==
  IF /\ Len(s) >= 9
     /\ s[Len(s) - 8] = "-"
     /\ IsDigits(SubSeq(s, Len(s) - 7, Len(s)))
  THEN 9 ELSE 0

\* trimmed.replace('@', '-'): replaces the first occurrence only
ReplaceFirstAt(s) ==
  LET i == IndexOf(s, <<"@">>)
  IN  IF i = -1 THEN s ELSE [s EXCEPT ![i + 1] = "-"]

\* "Handle Vertex AI nested prefixes": the segment after the last dot when it
\* starts with claude-
VertexTail(trimmed) ==
  IF /\ IndexOf(trimmed, ClaudeDash) # -1
     /\ LastIndexOf(trimmed, <<".">>) # -1
     /\ StartsWith(SliceFrom(trimmed, LastIndexOf(trimmed, <<".">>) + 1), ClaudeDash)
  THEN SliceFrom(trimmed, LastIndexOf(trimmed, <<".">>) + 1)
  ELSE trimmed

\* "Strip Vertex AI -vN:M version suffix"
StripVersion(trimmed) == SliceTo(trimmed, Len(trimmed) - VersionMatchLen(trimmed))

\* "Strip -YYYYMMDD date suffix if the base name is a known model"
StripKnownDate(trimmed) ==
  IF /\ DateMatchLen(trimmed) # 0
     /\ SliceTo(trimmed, Len(trimmed) - DateMatchLen(trimmed)) \in KNOWN_CLAUDE_BASES
  THEN SliceTo(trimmed, Len(trimmed) - DateMatchLen(trimmed))
  ELSE trimmed

normalizeClaudeModel(raw) ==
  StripKnownDate(ReplaceFirstAt(StripVersion(VertexTail(
    StripPrefix(Trim(raw), AnthropicPrefix)))))

\* ------------------------------------------------------------------------
\* Log lines and files
\* ------------------------------------------------------------------------
\* obj.timestamp absent, and obj.timestamp present but not a date
NoTs == -1
BadTs == -2
\* obj.costUSD absent (typeof obj.costUSD !== 'number')
NoCost == -1
\* Instants per local calendar day
TicksPerDay == 2

MClaudeDated ==
  <<"c", "l", "a", "u", "d", "e", "-", "o", "p", "u", "s", "-", "4", "-", "1", "-",
    "2", "0", "2", "5", "0", "8", "0", "5">>
MSynthetic == <<"<", "s", "y", "n", "t", "h", "e", "t", "i", "c", ">">>
MCodexRaw == <<"g", "p", "t", "-", "5", ".", "1", "-", "c", "o", "d", "e", "x">>
MGpt5 == <<"g", "p", "t", "-", "5">>

\* A usage sub-structure of a message-oriented line
Usage(i, o, cr, cc) ==
  [input_tokens |-> i, output_tokens |-> o,
   cache_read_input_tokens |-> cr, cache_creation_input_tokens |-> cc]

\* The message-oriented lines the writer can append.  sep is the white space
\* between the colon and the value of the "type" member in the raw text;
\* an absent member is <<>> (objects, model names) or "" (ids).
ClaudeLines ==
  << [sep |-> "", type |-> "assistant", timestamp |-> 1, requestId |-> "r1",
      costUSD |-> NoCost,
      message |-> <<[id |-> "m1", model |-> MClaudeDated, usage |-> <<Usage(1, 1, 0, 0)>>]>>],
     [sep |-> "", type |-> "assistant", timestamp |-> 1, requestId |-> "r1",
      costUSD |-> NoCost,
      message |-> <<[id |-> "m1", model |-> MClaudeDated, usage |-> <<Usage(1, 2, 0, 0)>>]>>],
     [sep |-> " ", type |-> "assistant", timestamp |-> 2, requestId |-> "",
      costUSD |-> 5,
      message |-> <<[id |-> "m3", model |-> MClaudeDated, usage |-> <<Usage(1, 0, 2, 0)>>]>>],
     [sep |-> "", type |-> "assistant", timestamp |-> 3, requestId |-> "r4",
      costUSD |-> NoCost,
      message |-> <<[id |-> "m4", model |-> MClaudeDated, usage |-> <<Usage(-1, 0, 0, 0)>>]>>] >>

\* A total_token_usage / last_token_usage sub-structure of a counter line
Tokens(i, c, o) == [input_tokens |-> i, cached_input_tokens |-> c, output_tokens |-> o]

\* The counter-oriented lines the writer can append.
CodexLines ==
  << [sep |-> "", type |-> "turn_context", timestamp |-> 0, model |-> <<>>,
      payload |-> <<[type |-> "", model |-> MCodexRaw, info |-> <<>>]>>],
     [sep |-> "", type |-> "event_msg", timestamp |-> 1, model |-> <<>>,
      payload |-> <<[type |-> "token_count", model |-> <<>>,
                     info |-> <<[model |-> <<>>, model_name |-> <<>>,
                                 total_token_usage |-> <<Tokens(1, 2, 1)>>,
                                 last_token_usage |-> <<>>]>>]>>],
     [sep |-> " ", type |-> "event_msg", timestamp |-> 2, model |-> <<>>,
      payload |-> <<[type |-> "token_count", model |-> <<>>,
                     info |-> <<[model |-> <<>>, model_name |-> <<>>,
                                 total_token_usage |-> <<Tokens(3, 2, 2)>>,
                                 last_token_usage |-> <<>>]>>]>>],
     [sep |-> "", type |-> "event_msg", timestamp |-> 3, model |-> <<>>,
      payload |-> <<[type |-> "token_count", model |-> <<>>,
                     info |-> <<[model |-> <<>>, model_name |-> <<>>,
                                 total_token_usage |-> <<>>,
                                 last_token_usage |-> <<Tokens(1, 0, 0)>>]>>]>>],
     [sep |-> "", type |-> "event_msg", timestamp |-> 3, model |-> <<>>,
      payload |-> <<[type |-> "token_count", model |-> <<>>,
                     info |-> <<[model |-> <<>>, model_name |-> <<>>,
                                 total_token_usage |-> <<Tokens(3, 3, 2)>>,
                                 last_token_usage |-> <<>>]>>]>>] >>

Formats == {"claude", "codex"}
LinesOf(f) == IF f = "claude" THEN ClaudeLines ELSE CodexLines
LineIds(f) == 1..Len(LinesOf(f))

\* Bytes of a file: byte p of line l, or the newline
NL == [l |-> 0, p |-> 0]
ByteOf(l, p) == [l |-> l, p |-> p]
\* The bytes of line l without and with its newline
LineBody(l) == [p \in 1..LineBytes |-> ByteOf(l, p)]
LineText(l) == Append(LineBody(l), NL)

RECURSIVE Concat(_)
\* The file text of a sequence of line ids, each line newline-terminated
Concat(ids) == IF ids = <<>> THEN <<>> ELSE LineText(Head(ids)) \o Concat(Tail(ids))

RECURSIVE SplitFrom(_, _, _)
SplitFrom(s, i, cur) ==
  IF i > Len(s) THEN <<cur>>
  ELSE IF s[i] = NL THEN <<cur>> \o SplitFrom(s, i + 1, <<>>)
  ELSE SplitFrom(s, i + 1, Append(cur, s[i]))
\* content.split('\n')
Split(content) == SplitFrom(content, 1, <<>>)

\* JSON.parse(line): <<id>> of the line the text is the complete body of,
\* <<>> when it throws (a fragment of a JSON object is not valid JSON)
JsonParse(seg) ==
  IF /\ Len(seg) = LineBytes
     /\ \A k \in 1..LineBytes : seg[k] = ByteOf(seg[1].l, k)
  THEN <<seg[1].l>> ELSE <<>>

\* ReadFrom with the read position left at the start of the file
ReadFrom_IgnoresOffset(file, startOffset) == file

\* fs.readSync(fd, buf, 0, fileSize - startOffset, startOffset) on the file as
\* it is at the time of the read; <<>> when readSize <= 0
ReadFrom(file, startOffset) ==
  IF Len(file) - startOffset <= 0 THEN <<>> ELSE SubSeq(file, startOffset + 1, Len(file))

\* A member that is absent, or holds neither a number nor a string
NotANumber == -1000

\* toInt(): the token counts of the model are integers already; what is not
\* a number counts as 0
toInt(v) == IF v = NotANumber THEN 0 ELSE v

\* dayKeyFromISO(): the local calendar day of an instant, <<>> for null
dayKeyFromISO(ts) == IF ts = BadTs THEN <<>> ELSE <<ts \div TicksPerDay>>

\* a ?? b, with <<>> for null / undefined
Nullish(a, b) == IF a # <<>> THEN a ELSE b

\* The non-empty lines of a read ("if (!line) continue")
NonEmpty(segs) == SelectSeq(segs, LAMBDA s : s # <<>>)

\* ------------------------------------------------------------------------
\* ClaudeLogScanner.parseFile
\* ------------------------------------------------------------------------
\* The substring pre-filters on the raw text of a line
ClaudePreFilter(L) ==
  /\ L.type = "assistant" /\ L.sep \in {"", " "}
  /\ L.message # <<>> /\ L.message[1].usage # <<>>

ClaudeAllZero(i, o, cr, cc) == i = 0 /\ o = 0 /\ cr = 0 /\ cc = 0

\* The dedup key of a line: <<>> when message.id or requestId is absent
ClaudeKey(L, message) ==
  IF message.id # "" /\ L.requestId # "" THEN <<message.id, L.requestId>> ELSE <<>>

\* The end of an iteration, from the zero-token test on
ClaudeEntry(L, message, inputTokens, outputTokens, cacheReadInputTokens, cacheCreationInputTokens) ==
  IF ClaudeAllZero(inputTokens, outputTokens,
                   cacheReadInputTokens, cacheCreationInputTokens) THEN <<>>
  ELSE <<[key |-> ClaudeKey(L, message),
          entry |-> [dayKey |-> dayKeyFromISO(L.timestamp)[1],
                     model |-> normalizeClaudeModel(message.model),
                     inputTokens |-> inputTokens,
                     outputTokens |-> outputTokens,
                     cacheReadInputTokens |-> cacheReadInputTokens,
                     cacheCreationInputTokens |-> cacheCreationInputTokens,
                     timestamp |-> L.timestamp,
                     costUSD |-> L.costUSD]]>>

\* The four counts of message.usage, each Math.max(0, toInt(...))
ClaudeUsage(L, message, usage) ==
  ClaudeEntry(L, message,
              Max(0, toInt(usage.input_tokens)),
              Max(0, toInt(usage.output_tokens)),
              Max(0, toInt(usage.cache_read_input_tokens)),
              Max(0, toInt(usage.cache_creation_input_tokens)))

\* The checks on obj.message
ClaudeMessage(L, message) ==
  IF message.model = <<>> \/ message.model = MSynthetic THEN <<>>
  ELSE IF message.usage = <<>> THEN <<>>
  ELSE ClaudeUsage(L, message, message.usage[1])

\* The checks on the parsed object
ClaudeObject(L) ==
  IF ~ClaudePreFilter(L) THEN <<>>
  ELSE IF L.type # "assistant" THEN <<>>
  ELSE IF L.timestamp = NoTs THEN <<>>
  ELSE IF dayKeyFromISO(L.timestamp) = <<>> THEN <<>>
  ELSE IF L.message = <<>> THEN <<>>
  ELSE ClaudeMessage(L, L.message[1])

\* One iteration of the loop over the lines: <<>> when the line is skipped,
\* else <<[key, entry]>>
ClaudeParseLine(seg) ==
  IF JsonParse(seg) = <<>> THEN <<>> ELSE ClaudeObject(ClaudeLines[JsonParse(seg)[1]])

\* entryByKey.set(key, entry) on a Map kept in insertion order: an existing
\* key keeps its position and takes the new value
MapSet(m, key, entry) ==
  IF \E i \in 1..Len(m) : m[i].key = key
  THEN [i \in 1..Len(m) |-> IF m[i].key = key THEN [key |-> key, entry |-> entry] ELSE m[i]]
  ELSE Append(m, [key |-> key, entry |-> entry])

\* What an iteration does to entryByKey and keylessEntries
ClaudeStore(acc, r) ==
  IF r = <<>> THEN acc
  ELSE IF r[1].key # <<>>
  THEN [acc EXCEPT !.entryByKey = MapSet(@, r[1].key, r[1].entry)]
  ELSE [acc EXCEPT !.keylessEntries = Append(@, r[1].entry)]

RECURSIVE ClaudeParseLines(_, _)
\* The loop over the lines, acc holding entryByKey and keylessEntries, and
\* the return [...entryByKey.values(), ...keylessEntries]
ClaudeParseLines(segs, acc) ==
  IF segs = <<>>
  THEN [i \in 1..Len(acc.entryByKey) |-> acc.entryByKey[i].entry] \o acc.keylessEntries
  ELSE ClaudeParseLines(Tail(segs), ClaudeStore(acc, ClaudeParseLine(Head(segs))))

\* parseFile(filePath, startOffset) on the file as it is when it is read
ClaudeParseFile(file, startOffset) ==
  ClaudeParseLines(NonEmpty(Split(ReadFrom(file, startOffset))),
                   [entryByKey |-> <<>>, keylessEntries |-> <<>>])

\* ------------------------------------------------------------------------
\* CodexLogScanner.parseFile
\* ------------------------------------------------------------------------
\* The fixed default model of a counter line
DefaultCodexModel == MGpt5

\* The substring pre-filters on the raw text of a line
CodexPreFilter(L) ==
  LET isEventMsg == L.type = "event_msg" /\ L.sep \in {"", " "}
      isTurnContext == L.type = "turn_context" /\ L.sep \in {"", " "}
  IN  /\ isEventMsg \/ isTurnContext
      /\ isEventMsg => (L.payload # <<>> /\ L.payload[1].type = "token_count")

\* CodexDelta without the clamp at zero
CodexDelta_Unclamped(cur, prev) == cur - prev

\* Math.max(0, current - previous)
CodexDelta(cur, prev) == Max(0, cur - prev)

\* The zero-delta test, on the deltas before the cached one is cut down
CodexAllZero(di, dc, do) == di = 0 /\ dc = 0 /\ do = 0

\* Math.min(deltaCached, deltaInput)
CachedClamped(deltaCached, deltaInput) == Min(deltaCached, deltaInput)

\* info?.field, with <<>> for undefined
InfoField(info, field) == IF info = <<>> THEN <<>> ELSE info[1][field]

\* previousTotals?.field ?? 0
PreviousTotal(acc, field) ==
  IF acc.previousTotals = <<>> THEN 0 ELSE acc.previousTotals[1][field]

\* The end of an iteration, from the zero-delta test on; previousTotals has
\* been assigned before the test
CodexPush(acc, L, model, deltaInput, deltaCached, deltaOutput, previousTotals) ==
  IF CodexAllZero(deltaInput, deltaCached, deltaOutput)
  THEN [acc EXCEPT !.previousTotals = previousTotals]
  ELSE [acc EXCEPT !.previousTotals = previousTotals,
                   !.entries = Append(@, [dayKey |-> dayKeyFromISO(L.timestamp)[1],
                                          model |-> normalizeCodexModel(model),
                                          inputTokens |-> deltaInput,
                                          cachedInputTokens |->
                                            CachedClamped(deltaCached, deltaInput),
                                          outputTokens |-> deltaOutput,
                                          timestamp |-> L.timestamp])]

\* "if (total) ... else if (last) ... else continue"
CodexUsage(acc, L, model, total, last) ==
  IF total # <<>>
  THEN CodexPush(acc, L, model,
                 CodexDelta(toInt(total[1].input_tokens), PreviousTotal(acc, "input")),
                 CodexDelta(toInt(total[1].cached_input_tokens), PreviousTotal(acc, "cached")),
                 CodexDelta(toInt(total[1].output_tokens), PreviousTotal(acc, "output")),
                 <<[input |-> toInt(total[1].input_tokens),
                    cached |-> toInt(total[1].cached_input_tokens),
                    output |-> toInt(total[1].output_tokens)]>>)
  ELSE IF last # <<>>
  THEN CodexPush(acc, L, model,
                 Max(0, toInt(last[1].input_tokens)),
                 Max(0, toInt(last[1].cached_input_tokens)),
                 Max(0, toInt(last[1].output_tokens)),
                 acc.previousTotals)
  ELSE acc

\* CodexTokenCount with the members of the line itself ahead of those of
\* the info
CodexTokenCount_LineFirst(acc, L, payload) ==
  IF payload.type # "token_count" THEN acc
  ELSE CodexUsage(acc, L,
                  Nullish(Nullish(payload.model,
                            Nullish(L.model,
                              Nullish(InfoField(payload.info, "model"),
                                      InfoField(payload.info, "model_name")))),
                          Nullish(acc.currentModel, DefaultCodexModel)),
                  InfoField(payload.info, "total_token_usage"),
                  InfoField(payload.info, "last_token_usage"))

\* An event_msg line with a payload: the model by precedence, then the usage
CodexTokenCount(acc, L, payload) ==
  IF payload.type # "token_count" THEN acc
  ELSE CodexUsage(acc, L,
                  Nullish(Nullish(InfoField(payload.info, "model"),
                            Nullish(InfoField(payload.info, "model_name"),
                              Nullish(payload.model, L.model))),
                          Nullish(acc.currentModel, DefaultCodexModel)),
                  InfoField(payload.info, "total_token_usage"),
                  InfoField(payload.info, "last_token_usage"))

\* A turn_context line: update the current model
CodexTurnContext(acc, L) ==
  IF L.payload = <<>> THEN acc
  ELSE [acc EXCEPT !.currentModel =
          Nullish(L.payload[1].model,
            Nullish(InfoField(L.payload[1].info, "model"), acc.currentModel))]

\* The checks on the parsed object
CodexObject(acc, L) ==
  IF ~CodexPreFilter(L) THEN acc
  ELSE IF L.type = "turn_context" THEN CodexTurnContext(acc, L)
  ELSE IF L.type # "event_msg" THEN acc
  ELSE IF L.timestamp = NoTs THEN acc
  ELSE IF dayKeyFromISO(L.timestamp) = <<>> THEN acc
  ELSE IF L.payload = <<>> THEN acc
  ELSE CodexTokenCount(acc, L, L.payload[1])

\* One iteration of the loop over the lines.  acc holds entries, currentModel
\* and previousTotals; the result is acc after the line.
CodexParseLine(acc, seg) ==
  IF JsonParse(seg) = <<>> THEN acc ELSE CodexObject(acc, CodexLines[JsonParse(seg)[1]])

RECURSIVE CodexParseLines(_, _)
CodexParseLines(segs, acc) ==
  IF segs = <<>> THEN acc
  ELSE CodexParseLines(Tail(segs), CodexParseLine(acc, Head(segs)))

\* The value parseFile returns, from the loop's final accumulator
CodexResult(acc) ==
  [entries |-> acc.entries, lastModel |-> acc.currentModel, lastTotals |-> acc.previousTotals]

\* parseFile(filePath, startOffset, initialModel, initialTotals) on the file
\* as it is when it is read
CodexParseFile(file, startOffset, initialModel, initialTotals) ==
  CodexResult(CodexParseLines(NonEmpty(Split(ReadFrom(file, startOffset))),
                              [entries |-> <<>>, currentModel |-> initialModel,
                               previousTotals |-> initialTotals]))

\* ------------------------------------------------------------------------
\* scanFile of both scanners
\* ------------------------------------------------------------------------
\* fileStates holds <<>> (no entry for the path) or <<state>>.  size and
\* mtimeMs are the values of the statSync at the start of the pass; file is
\* the content at the later moment parseFile opens and reads it.

\* IsCacheHit with the unchanged-file test gone
IsCacheHit_Never(cached, size, mtimeMs) == FALSE

\* "File unchanged: return cached entries"
IsCacheHit(cached, size, mtimeMs) ==
  cached # <<>> /\ cached[1].lastSize = size /\ cached[1].lastMtimeMs = mtimeMs

\* "File grew: read only the new portion"
IsIncremental(cached, size) ==
  /\ cached # <<>>
  /\ size > cached[1].lastSize
  /\ cached[1].lastOffset > 0
  /\ cached[1].lastOffset <= size

\* Lines parseFile iterates over when it reads from startOffset
LinesRead(file, startOffset) == Len(NonEmpty(Split(ReadFrom(file, startOffset))))

\* this.fileStates.set(filePath, {...}) and the return of the entries
ClaudeStateSet(size, mtimeMs, entries, parsed) ==
  [state |-> <<[lastSize |-> size, lastMtimeMs |-> mtimeMs, lastOffset |-> size,
                entries |-> entries]>>,
   ret |-> entries, parsed |-> parsed]

\* ClaudeLogScanner.scanFile: the new fileStates entry, the returned list and
\* the number of lines parsed
ClaudeScanFile(cached, size, mtimeMs, file) ==
  IF size <= 0
  THEN [state |-> cached, ret |-> <<>>, parsed |-> 0]
  ELSE IF IsCacheHit(cached, size, mtimeMs)
  THEN [state |-> cached, ret |-> cached[1].entries, parsed |-> 0]
  ELSE IF IsIncremental(cached, size)
  THEN ClaudeStateSet(size, mtimeMs,
                      cached[1].entries \o ClaudeParseFile(file, cached[1].lastOffset),
                      LinesRead(file, cached[1].lastOffset))
  ELSE ClaudeStateSet(size, mtimeMs, ClaudeParseFile(file, 0), LinesRead(file, 0))

\* this.fileStates.set(filePath, {...}) and the return of the entries, the
\* entries being those cached before followed by the result's
CodexStateSet(size, mtimeMs, before, result, parsed) ==
  [state |-> <<[lastSize |-> size, lastMtimeMs |-> mtimeMs, lastOffset |-> size,
                lastTotals |-> result.lastTotals, lastModel |-> result.lastModel,
                entries |-> before \o result.entries]>>,
   ret |-> before \o result.entries, parsed |-> parsed]

\* CodexScanFile with the incremental parse started from no model and no totals
CodexScanFile_NoCarry(cached, size, mtimeMs, file) ==
  IF size <= 0
  THEN [state |-> cached, ret |-> <<>>, parsed |-> 0]
  ELSE IF IsCacheHit(cached, size, mtimeMs)
  THEN [state |-> cached, ret |-> cached[1].entries, parsed |-> 0]
  ELSE IF IsIncremental(cached, size)
  THEN CodexStateSet(size, mtimeMs, cached[1].entries,
                     CodexParseFile(file, cached[1].lastOffset, <<>>, <<>>),
                     LinesRead(file, cached[1].lastOffset))
  ELSE CodexStateSet(size, mtimeMs, <<>>, CodexParseFile(file, 0, <<>>, <<>>),
                     LinesRead(file, 0))

\* CodexLogScanner.scanFile
CodexScanFile(cached, size, mtimeMs, file) ==
  IF size <= 0
  THEN [state |-> cached, ret |-> <<>>, parsed |-> 0]
  ELSE IF IsCacheHit(cached, size, mtimeMs)
  THEN [state |-> cached, ret |-> cached[1].entries, parsed |-> 0]
  ELSE IF IsIncremental(cached, size)
  THEN CodexStateSet(size, mtimeMs, cached[1].entries,
                     CodexParseFile(file, cached[1].lastOffset,
                                    cached[1].lastModel, cached[1].lastTotals),
                     LinesRead(file, cached[1].lastOffset))
  ELSE CodexStateSet(size, mtimeMs, <<>>, CodexParseFile(file, 0, <<>>, <<>>),
                     LinesRead(file, 0))

\* The scanFile of the scanner that owns a file of format f
ScanFile(f, cached, size, mtimeMs, file) ==
  IF f = "claude" THEN ClaudeScanFile(cached, size, mtimeMs, file)
  ELSE CodexScanFile(cached, size, mtimeMs, file)

\* scan() with the cached states of the paths not found left in place
scan_NoDrop(f, present, cached, size, mtimeMs, file) ==
  IF ~present THEN [state |-> cached, ret |-> <<>>, parsed |-> 0]
  ELSE ScanFile(f, cached, size, mtimeMs, file)

\* scan() over roots that hold the one path or nothing: scanFile on every
\* file found, then "Remove cached states for files that no longer exist"
scan(f, present, cached, size, mtimeMs, file) ==
  IF ~present THEN [state |-> <<>>, ret |-> <<>>, parsed |-> 0]
  ELSE ScanFile(f, cached, size, mtimeMs, file)

\* ------------------------------------------------------------------------
\* AiUsageTracker: pricing, logRequest, migrations, cleanup
\* ------------------------------------------------------------------------
\* Costs are integers in micro-USD (the code rounds to 6 decimals); rates are
\* in nano-USD per token, i.e. 1000 times the table's USD per million tokens.
MClaudeOpus41 == <<"c", "l", "a", "u", "d", "e", "-", "o", "p", "u", "s", "-", "4", "-", "1">>
MClaudeOpus46 == <<"c", "l", "a", "u", "d", "e", "-", "o", "p", "u", "s", "-", "4", "-", "6">>
MClaudeSonnet45 ==
  <<"c", "l", "a", "u", "d", "e", "-", "s", "o", "n", "n", "e", "t", "-", "4", "-", "5">>
MGpt51 == <<"g", "p", "t", "-", "5", ".", "1">>

\* No calculateCost call under study
NoArgs == <<>>

\* A rate that the table leaves out
NoRate == -1
NoTier == [thresholdTokens |-> NoRate, input |-> NoRate, output |-> NoRate,
           cacheRead |-> NoRate, cacheCreation |-> NoRate]

\* The entries of MODEL_PRICING for the models the model's lines and requests use
PricedModels == {MGpt5, MGpt51, MClaudeOpus41, MClaudeOpus46, MClaudeSonnet45}
MODEL_PRICING(model) ==
  IF model = MGpt5 \/ model = MGpt51
  THEN [input |-> 1250, output |-> 10000, cacheRead |-> 125, cacheCreation |-> NoRate,
        aboveThreshold |-> NoTier]
  ELSE IF model = MClaudeOpus41
  THEN [input |-> 15000, output |-> 75000, cacheRead |-> 1500, cacheCreation |-> 18750,
        aboveThreshold |-> NoTier]
  ELSE IF model = MClaudeOpus46
  THEN [input |-> 5000, output |-> 25000, cacheRead |-> 500, cacheCreation |-> 6250,
        aboveThreshold |-> [thresholdTokens |-> 200000, input |-> 10000, output |-> 37500,
                            cacheRead |-> 1000, cacheCreation |-> 12500]]
  ELSE [input |-> 3000, output |-> 15000, cacheRead |-> 300, cacheCreation |-> 3750,
        aboveThreshold |-> [thresholdTokens |-> 200000, input |-> 6000, output |-> 22500,
                            cacheRead |-> 600, cacheCreation |-> 7500]]

\* tokens * rate, held as whole micro-USD plus a rest in nano-USD so that a
\* million tokens stay within the integers of the checker
Price(tokens, rate) ==
  [micro |-> (tokens \div 1000) * rate, nano |-> (tokens % 1000) * rate]

\* tieredCost with the whole count priced at the tier rate once it passes the
\* threshold
tieredCost_AllAbove(tokens, baseRate, aboveRate, threshold) ==
  IF threshold = NoRate \/ aboveRate = NoRate \/ tokens <= threshold
  THEN Price(tokens, baseRate)
  ELSE Price(tokens, aboveRate)

\* The tieredCost helper
tieredCost(tokens, baseRate, aboveRate, threshold) ==
  IF threshold = NoRate \/ aboveRate = NoRate
  THEN Price(tokens, baseRate)
  ELSE [micro |-> Price(Min(tokens, threshold), baseRate).micro
                  + Price(Max(tokens - threshold, 0), aboveRate).micro,
        nano |-> Price(Min(tokens, threshold), baseRate).nano
                 + Price(Max(tokens - threshold, 0), aboveRate).nano]

\* pricing.cacheRead ?? 0, pricing.cacheCreation ?? 0
RateOrZero(r) == IF r = NoRate THEN 0 ELSE r

\* total = inputCost + outputCost + cacheReadCost + cacheCreationCost, then
\* Math.round(total * 1_000_000) / 1_000_000, in micro-USD
RoundedTotal(inputCost, outputCost, cacheReadCost, cacheCreationCost) ==
  inputCost.micro + outputCost.micro + cacheReadCost.micro + cacheCreationCost.micro
  + (inputCost.nano + outputCost.nano + cacheReadCost.nano + cacheCreationCost.nano + 500)
      \div 1000

\* The body of calculateCost once the pricing entry is found
CostAt(pricing, tier, inputTokens, outputTokens, cacheReadTokens, cacheCreationTokens) ==
  RoundedTotal(
    tieredCost(Max(0, inputTokens), pricing.input, tier.input, tier.thresholdTokens),
    tieredCost(Max(0, outputTokens), pricing.output, tier.output, tier.thresholdTokens),
    tieredCost(Max(0, cacheReadTokens), RateOrZero(pricing.cacheRead),
               tier.cacheRead, tier.thresholdTokens),
    tieredCost(Max(0, cacheCreationTokens), RateOrZero(pricing.cacheCreation),
               tier.cacheCreation, tier.thresholdTokens))

\* calculateCost with a fallback price for a model the table does not have
calculateCost_Fallback(model, inputTokens, outputTokens, cacheReadTokens, cacheCreationTokens) ==
  CostAt(MODEL_PRICING(model), MODEL_PRICING(model).aboveThreshold,
         inputTokens, outputTokens, cacheReadTokens, cacheCreationTokens)

\* calculateCost: 0 for a model the table does not have
calculateCost(model, inputTokens, outputTokens, cacheReadTokens, cacheCreationTokens) ==
  IF model \notin PricedModels THEN 0
  ELSE CostAt(MODEL_PRICING(model), MODEL_PRICING(model).aboveThreshold,
              inputTokens, outputTokens, cacheReadTokens, cacheCreationTokens)

\* normalizeModel(model, provider)
normalizeModel(model, provider) ==
  IF provider = "openai" THEN normalizeCodexModel(model)
  ELSE IF provider = "anthropic" THEN normalizeClaudeModel(model)
  ELSE Trim(model)

\* The columns of idx_ai_requests_dedup
DedupKey(r) ==
  <<r.timestamp, r.provider, r.model, r.source, r.input_tokens, r.output_tokens>>

\* The rows satisfy the unique index idx_ai_requests_dedup
UniqueIndexHolds(rows) == \A r, q \in rows : DedupKey(r) = DedupKey(q) => r = q

\* InsertIgnored for a plain INSERT on a table without the unique index
InsertIgnored_Never(rows, row) == FALSE

\* INSERT OR IGNORE against the unique index: TRUE when the row is ignored
InsertIgnored(rows, row) == \E r \in rows : DedupKey(r) = DedupKey(row)

\* RequestRow with `preCalculatedCost || calculateCost(...)`: a cost of 0 is
\* taken as missing
RequestRow_ZeroIsMissing(store, entry, normalizedModel, preCalculatedCost) ==
  [id |-> store.nextId,
   timestamp |-> entry.timestamp,
   provider |-> entry.provider,
   model |-> normalizedModel,
   input_tokens |-> entry.inputTokens,
   output_tokens |-> entry.outputTokens,
   cache_read_input_tokens |-> entry.cacheReadInputTokens,
   cache_creation_input_tokens |-> entry.cacheCreationInputTokens,
   estimated_cost |->
     IF preCalculatedCost # NoCost /\ preCalculatedCost # 0 THEN preCalculatedCost
     ELSE calculateCost(normalizedModel, entry.inputTokens, entry.outputTokens,
                        entry.cacheReadInputTokens, entry.cacheCreationInputTokens),
   source |-> entry.source]

\* The row logRequest binds to the statement
RequestRow(store, entry, normalizedModel, preCalculatedCost) ==
  [id |-> store.nextId,
   timestamp |-> entry.timestamp,
   provider |-> entry.provider,
   model |-> normalizedModel,
   input_tokens |-> entry.inputTokens,
   output_tokens |-> entry.outputTokens,
   cache_read_input_tokens |-> entry.cacheReadInputTokens,
   cache_creation_input_tokens |-> entry.cacheCreationInputTokens,
   estimated_cost |->
     IF preCalculatedCost # NoCost THEN preCalculatedCost
     ELSE calculateCost(normalizedModel, entry.inputTokens, entry.outputTokens,
                        entry.cacheReadInputTokens, entry.cacheCreationInputTokens),
   source |-> entry.source]

\* InsertRow for a plain INSERT: the row is added whatever the table holds
InsertRow_Always(store, row) ==
  [rows |-> store.rows \cup {row}, nextId |-> store.nextId + 1]

\* stmt.run(...) of the INSERT OR IGNORE
InsertRow(store, row) ==
  IF InsertIgnored(store.rows, row) THEN store
  ELSE [rows |-> store.rows \cup {row}, nextId |-> store.nextId + 1]

\* logRequest(entry, preCalculatedCost) on a store [rows, nextId]
logRequest(store, entry, preCalculatedCost) ==
  InsertRow(store, RequestRow(store, entry, normalizeModel(entry.model, entry.provider),
                              preCalculatedCost))

\* migrateDeduplicateRows: keep the row with the lowest id of every tuple
migrateDeduplicateRows(rows) ==
  {r \in rows : \A q \in rows : DedupKey(q) = DedupKey(r) => r.id <= q.id}

\* migrateRecalculateOpus46Costs
migrateRecalculateOpus46Costs(rows) ==
  {IF r.model = MClaudeOpus46
   THEN [r EXCEPT !.estimated_cost =
           calculateCost(MClaudeOpus46, r.input_tokens, r.output_tokens,
                         r.cache_read_input_tokens, r.cache_creation_input_tokens)]
   ELSE r : r \in rows}

\* CREATE UNIQUE INDEX idx_ai_requests_dedup succeeds on the rows, and throws
\* over rows that repeat a tuple
createUniqueIndex(rows) == UniqueIndexHolds(rows)

\* initDb with the unique index created ahead of the sweeps: over duplicates
\* the statement throws and the sweeps are never reached
initDb_IndexFirst(rows) ==
  IF createUniqueIndex(rows)
  THEN migrateRecalculateOpus46Costs(migrateDeduplicateRows(rows))
  ELSE rows

\* initDb on the rows found in the store file: the rows it leaves when it
\* reaches the creation of the unique index
initDb(rows) == migrateRecalculateOpus46Costs(migrateDeduplicateRows(rows))

\* cleanupOldData with DELETE ... WHERE timestamp <= ?
cleanupOldData_Inclusive(rows, retentionDays, t) ==
  LET cutoff == t - retentionDays * TicksPerDay
  IN  {r \in rows : ~(r.timestamp <= cutoff)}

\* cleanupOldData(retentionDays) at instant t
cleanupOldData(rows, retentionDays, t) ==
  LET cutoff == t - retentionDays * TicksPerDay
  IN  {r \in rows : ~(r.timestamp < cutoff)}

\* ------------------------------------------------------------------------
\* AiUsageTracker: getUsageSummary
\* ------------------------------------------------------------------------
\* Timestamps are ticks of local time, TicksPerDay to the day and
\* DaysPerMonth days to every month; a month index stands for year and month.
getMonth(t) == (t \div TicksPerDay) \div DaysPerMonth
getDate(t) == ((t \div TicksPerDay) % DaysPerMonth) + 1

\* new Date(year, month, date).getTime(): a date below 1 counts back into the
\* month before
NewDate(month, date) == (month * DaysPerMonth + date - 1) * TicksPerDay

\* getDate() - 7
WeekDays == 7

\* getPeriodStartTimestamp with the week as the 7 * 24 hours before now
getPeriodStartTimestamp_Rolling(period, t) ==
  IF period = "today" THEN NewDate(getMonth(t), getDate(t))
  ELSE IF period = "week" THEN t - WeekDays * TicksPerDay
  ELSE NewDate(getMonth(t), 1)

getPeriodStartTimestamp(period, t) ==
  IF period = "today" THEN NewDate(getMonth(t), getDate(t))
  ELSE IF period = "week" THEN NewDate(getMonth(t), getDate(t) - WeekDays)
  ELSE NewDate(getMonth(t), 1)

\* SUM(field) over a set of rows
RECURSIVE SumField(_, _)
SumField(S, f) ==
  IF S = {} THEN 0
  ELSE LET r == CHOOSE x \in S : TRUE
       IN  r[f] + SumField(S \ {r}, f)

\* WHERE timestamp >= ?
RowsSince(rows, since) == {r \in rows : r.timestamp >= since}

\* getTotalCostSince: COALESCE(SUM(estimated_cost), 0)
getTotalCostSince(rows, sinceTimestamp) ==
  SumField(RowsSince(rows, sinceTimestamp), "estimated_cost")

\* One row of the GROUP BY provider, model query over the selected rows S
GroupRow(S, provider, model) ==
  [provider |-> provider,
   model |-> model,
   request_count |-> Cardinality({r \in S : r.provider = provider /\ r.model = model}),
   total_input_tokens |->
     SumField({r \in S : r.provider = provider /\ r.model = model}, "input_tokens"),
   total_output_tokens |->
     SumField({r \in S : r.provider = provider /\ r.model = model}, "output_tokens"),
   total_cache_read |->
     SumField({r \in S : r.provider = provider /\ r.model = model}, "cache_read_input_tokens"),
   total_cache_creation |->
     SumField({r \in S : r.provider = provider /\ r.model = model},
              "cache_creation_input_tokens"),
   total_cost |->
     SumField({r \in S : r.provider = provider /\ r.model = model}, "estimated_cost")]

\* The groups of one provider
GroupRows(S, provider) ==
  {GroupRow(S, provider, r.model) : r \in {x \in S : x.provider = provider}}

\* ORDER BY total_cost DESC within a provider
RECURSIVE ByCostDesc(_)
ByCostDesc(G) ==
  IF G = {} THEN <<>>
  ELSE LET g == CHOOSE x \in G : \A y \in G : y.total_cost <= x.total_cost
       IN  <<g>> \o ByCostDesc(G \ {g})

\* A property left undefined
Undefined == -1

\* row.total_cache_read || undefined
OrUndefined(n) == IF n = 0 THEN Undefined ELSE n

ModelSummary(row) ==
  [model |-> row.model,
   requestCount |-> row.request_count,
   totalInputTokens |-> row.total_input_tokens,
   totalOutputTokens |-> row.total_output_tokens,
   totalCacheReadInputTokens |-> OrUndefined(row.total_cache_read),
   totalCacheCreationInputTokens |-> OrUndefined(row.total_cache_creation),
   totalCost |-> row.total_cost]

\* provSummary.models.push(modelSummary) for the query rows q in their order
ModelSummaries(q) == [i \in 1..Len(q) |-> ModelSummary(q[i])]

\* The ProviderSummary built up from the query rows G of one provider
ProviderSummary(G, provider) ==
  [provider |-> provider,
   requestCount |-> SumField(G, "request_count"),
   totalInputTokens |-> SumField(G, "total_input_tokens"),
   totalOutputTokens |-> SumField(G, "total_output_tokens"),
   totalCacheReadInputTokens |-> SumField(G, "total_cache_read"),
   totalCacheCreationInputTokens |-> SumField(G, "total_cache_creation"),
   totalCost |-> SumField(G, "total_cost"),
   models |-> ModelSummaries(ByCostDesc(G))]

\* AiProvider in the order of ORDER BY provider
AiProviders == <<"anthropic", "deepseek", "google", "openai", "other">>

\* The providerMap entries of the providers ps, in their order
SummariesOf(S, ps) == [i \in 1..Len(ps) |-> ProviderSummary(GroupRows(S, ps[i]), ps[i])]

\* Array.from(providerMap.values()) over the selected rows S
ProviderSummaries(S) ==
  LET present(p) == \E r \in S : r.provider = p
  IN  SummariesOf(S, SelectSeq(AiProviders, present))

\* Math.round(x * 100) / 100 on micro-USD
RoundCents(x) == ((x + 5000) \div 10000) * 10000

\* getUsageSummary with the headline totals taken over the requested period
getUsageSummary_PeriodTotals(rows, period, t) ==
  [period |-> period,
   providers |-> ProviderSummaries(RowsSince(rows, getPeriodStartTimestamp(period, t))),
   totalCostToday |->
     RoundCents(getTotalCostSince(rows, getPeriodStartTimestamp(period, t))),
   totalCostThisMonth |->
     RoundCents(getTotalCostSince(rows, getPeriodStartTimestamp("month", t)))]

\* getUsageSummary(period) at instant t
getUsageSummary(rows, period, t) ==
  [period |-> period,
   providers |-> ProviderSummaries(RowsSince(rows, getPeriodStartTimestamp(period, t))),
   totalCostToday |->
     RoundCents(getTotalCostSince(rows, getPeriodStartTimestamp("today", t))),
   totalCostThisMonth |->
     RoundCents(getTotalCostSince(rows, getPeriodStartTimestamp("month", t)))]

\* The logRequest argument scanLocalLogs builds from a Claude entry
ClaudeRequest(e) ==
  [timestamp |-> e.timestamp, provider |-> "anthropic", model |-> e.model,
   inputTokens |-> e.inputTokens, outputTokens |-> e.outputTokens,
   cacheReadInputTokens |-> e.cacheReadInputTokens,
   cacheCreationInputTokens |-> e.cacheCreationInputTokens,
   source |-> "claude-code"]

\* The logRequest argument scanLocalLogs builds from a Codex entry
CodexRequest(e) ==
  [timestamp |-> e.timestamp, provider |-> "openai", model |-> e.model,
   inputTokens |-> e.inputTokens, outputTokens |-> e.outputTokens,
   cacheReadInputTokens |-> e.cachedInputTokens,
   cacheCreationInputTokens |-> 0,
   source |-> "api"]

RECURSIVE LogEntries(_, _, _)
\* The two loops of scanLocalLogs over the entries scan() returned for the
\* file of format f
LogEntries(store, f, entries) ==
  IF entries = <<>> THEN store
  ELSE LET e == Head(entries)
           next == IF f = "claude"
                   THEN logRequest(store, ClaudeRequest(e), e.costUSD)
                   ELSE logRequest(store, CodexRequest(e), NoCost)
       IN  LogEntries(next, f, Tail(entries))

\* ------------------------------------------------------------------------
\* State
\* ------------------------------------------------------------------------
VARIABLES
  fmt,          \* format of the one log file under the scanned roots
  file,         \* its bytes
  mtime,        \* its modification time
  everPartial,  \* the writer has left a line unfinished at some moment
  exists,       \* the file is present under the scanned roots
  nrepl,        \* deletions and replacements of the file so far
  npass,        \* scan() calls completed so far, where they are counted
  dropped,      \* history: a scan() call has deleted the cached state of the path
  fileStates,   \* the owning scanner's fileStates entry for it: <<>> or <<state>>
  pc,           \* "idle", or "read": scanFile has done statSync, not yet parseFile
  statSize,     \* stat.size of the pass in progress
  statMtimeMs,  \* stat.mtimeMs of the pass in progress
  returned,     \* the list the last completed scan() returned
  parsedLines,  \* the number of lines the last completed pass parsed
  db,           \* the ledger: [rows, nextId]
  dbOpen,       \* the store is open
  now,          \* Date.now()
  nreq,         \* logRequest calls issued directly so far
  lastDays,     \* retentionDays of the cleanupOldData call just made, or NoDays
  lastReq,      \* the last direct logRequest call: <<>> or <<its tuple, entry, preCalculatedCost>>
  frag1,        \* two-fragment scenario: line ids of the first fragment
  frag2,        \*   and of the second
  fstep,        \*   position in the scenario
  fullEntries,  \*   result of the from-scratch scan of the whole file
  summary,      \* what the last getUsageSummary call returned: <<>> or <<summary>>
  costIn,       \* the arguments of the calculateCost call under study
  costOut,      \* its result, NoCost before the call
  count,        \* what the last scanLocalLogs call returned
  arg,          \* the input of the pure function under study: <<>> or <<input>>
  res,          \* its result: <<>> before the call, <<result>> after
  threw,        \* the last constructor call of AiUsageTracker threw
  pm,           \* the PairManager: currentCode, codeExpiry, rotationTimer
  timers,       \* the interval timers of the event loop that are active
  clock,        \* Date.now(), in minutes
  ncodes,       \* codes generated so far
  genAt,        \* instant the current code was generated
  mon,          \* the OpenClawMonitor: running, its timer handles, the timers it set
  relay,        \* the RelayClient: ws, state, shouldReconnect, heartbeat
  sockets,      \* the WebSockets created and not yet closed: [id, readyState]
  nsock,        \* WebSockets created so far
  retries       \* reconnect timeouts that are pending

vars == <<fmt, file, mtime, everPartial, exists, nrepl, npass, dropped, fileStates, pc, statSize, statMtimeMs,
          returned, parsedLines, db, dbOpen, now, nreq, lastReq, lastDays,
          frag1, frag2, fstep, fullEntries, summary, costIn, costOut,
          count, arg, res, threw, pm, timers, clock, ncodes, genAt,
          mon, relay, sockets, nsock, retries>>

fileVars == <<file, mtime, everPartial, exists, nrepl, dropped>>
pathVars == <<exists, nrepl, dropped>>
queryVars == <<summary, costIn, costOut>>
pairVars == <<pm, timers, clock, ncodes, genAt>>
relayVars == <<relay, sockets, nsock, retries>>
extVars == <<mon, relayVars>>
auxVars == <<count, arg, res, threw, pairVars, extVars>>
scanVars == <<fileStates, pc, statSize, statMtimeMs, returned, parsedLines>>
ledgerVars == <<db, dbOpen, now, nreq, lastReq, lastDays>>
fragVars == <<frag1, frag2, fstep, fullEntries>>

EmptyStore == [rows |-> {}, nextId |-> 1]

\* new PairManager(), no timer set, at instant 0
InitPairManager ==
  /\ pm = [currentCode |-> <<>>, codeExpiry |-> 0, rotationTimer |-> <<>>]
  /\ timers = {} /\ clock = 0 /\ ncodes = 0 /\ genAt = 0

\* new RelayClient(...): no socket, no timer
NewRelayClient ==
  [ws |-> <<>>, state |-> "disconnected", shouldReconnect |-> TRUE,
   reconnectAttempts |-> 0, heartbeatInterval |-> FALSE, pongReceived |-> TRUE]
InitRelayClient ==
  /\ relay = NewRelayClient
  /\ sockets = {} /\ nsock = 0 /\ retries = 0

\* new OpenClawMonitor(...): not running, no timer.  timers holds the
\* interval timers the monitor has set and not cleared, [id, kind]; error
\* names the handler whose latest run met an exception of the tracker
NewMonitor ==
  [running |-> FALSE, statusInterval |-> <<>>, logScanInterval |-> <<>>,
   timers |-> {}, ntimers |-> 0, error |-> <<>>]
InitMonitor == mon = NewMonitor
NoReq == <<>>
NoDays == -1

\* What all behaviours start from, up to the part a specification chooses
InitCommon ==
  /\ file = <<>> /\ mtime = 0 /\ everPartial = FALSE
  /\ exists = TRUE /\ nrepl = 0 /\ npass = 0 /\ dropped = FALSE
  /\ fileStates = <<>> /\ pc = "idle" /\ statSize = 0 /\ statMtimeMs = 0
  /\ returned = <<>> /\ parsedLines = 0
  /\ dbOpen = TRUE /\ now = 0 /\ nreq = 0 /\ lastReq = NoReq /\ lastDays = NoDays
  /\ fullEntries = <<>>
  /\ summary = <<>> /\ costIn = NoArgs /\ costOut = NoCost
  /\ count = 0 /\ arg = <<>> /\ res = <<>> /\ threw = FALSE /\ InitPairManager /\ InitRelayClient /\ InitMonitor

\* ------------------------------------------------------------------------
\* The log writer (another process) and the scan pass
\* ------------------------------------------------------------------------
\* The file ends inside a line
MidLine == file # <<>> /\ file[Len(file)] # NL
\* Lines begun so far
LinesBegun == Cardinality({i \in 1..Len(file) : file[i].p = 1})

\* The writer appends one complete line in one write
AppendLine(l) ==
  /\ ~MidLine /\ LinesBegun < MaxLines
  /\ file' = file \o LineText(l)
  /\ mtime' = mtime + 1
  /\ UNCHANGED <<fmt, queryVars, auxVars, everPartial, pathVars, npass, scanVars, ledgerVars, fragVars>>

\* The writer appends the first k bytes of a line
AppendPartial(l, k) ==
  /\ ~MidLine /\ LinesBegun < MaxLines
  /\ file' = file \o SubSeq(LineBody(l), 1, k)
  /\ mtime' = mtime + 1
  /\ everPartial' = TRUE
  /\ UNCHANGED <<fmt, queryVars, auxVars, pathVars, npass, scanVars, ledgerVars, fragVars>>

\* The writer appends the rest of the unfinished line and its newline
CompleteLine ==
  /\ MidLine
  /\ LET last == file[Len(file)]
     IN  file' = file \o SubSeq(LineText(last.l), last.p + 1, LineBytes + 1)
  /\ mtime' = mtime + 1
  /\ UNCHANGED <<fmt, queryVars, auxVars, everPartial, pathVars, npass, scanVars, ledgerVars, fragVars>>

\* scan() is called: scanFile reaches fs.statSync
ScanBegin ==
  /\ pc = "idle"
  /\ pc' = "read"
  /\ statSize' = Len(file)
  /\ statMtimeMs' = mtime
  /\ UNCHANGED <<fmt, queryVars, auxVars, fileVars, npass, fileStates, returned, parsedLines,
                 ledgerVars, fragVars>>

\* The rest of the pass: the cache checks, parseFile on the file as it is
\* now, the update of fileStates and the return of scan()
ScanRead ==
  /\ pc = "read"
  /\ \E r \in {ScanFile(fmt, fileStates, statSize, statMtimeMs, file)} :
         /\ fileStates' = r.state
         /\ returned' = r.ret
         /\ parsedLines' = r.parsed
  /\ pc' = "idle"
  /\ statSize' = 0
  /\ statMtimeMs' = 0
  /\ UNCHANGED <<fmt, queryVars, auxVars, fileVars, npass, ledgerVars, fragVars>>

Init ==
  /\ InitCommon
  /\ fmt \in Formats
  /\ db = EmptyStore
  /\ frag1 = <<>> /\ frag2 = <<>> /\ fstep = "off"

Next ==
  \/ \E l \in LineIds(fmt) : AppendLine(l)
  \/ \E l \in LineIds(fmt) : \E k \in 1..(LineBytes - 1) : AppendPartial(l, k)
  \/ CompleteLine
  \/ ScanBegin
  \/ ScanRead

Spec == Init /\ [][Next]_vars

\* ------------------------------------------------------------------------
\* Ingestion: scanLocalLogs against a file that grows between the calls
\* ------------------------------------------------------------------------
\* scanLocalLogs(): one scan pass and the logRequest of every returned entry;
\* count is incremented once per returned entry
ScanLocalLogs ==
  /\ pc = "idle" /\ dbOpen
  /\ \E r \in {ScanFile(fmt, fileStates, Len(file), mtime, file)} :
         /\ fileStates' = r.state
         /\ returned' = r.ret
         /\ parsedLines' = r.parsed
         /\ db' = LogEntries(db, fmt, r.ret)
         /\ count' = Len(r.ret)
  /\ UNCHANGED <<fmt, queryVars, arg, res, threw, pairVars, extVars, fileVars, npass, pc, statSize, statMtimeMs, dbOpen, now, nreq, lastReq, lastDays,
                 fragVars>>

InitIngest == Init

NextIngest ==
  \/ \E l \in LineIds(fmt) : AppendLine(l)
  \/ ScanLocalLogs

SpecIngest == InitIngest /\ [][NextIngest]_vars

\* ------------------------------------------------------------------------
\* A file that is appended to, replaced, truncated and deleted between scans
\* ------------------------------------------------------------------------
\* All sequences over S of length at most n
SeqsUpTo(S, n) == UNION {[1..k -> S] : k \in 0..n}

\* The file is replaced by one holding the lines ids, with modification time
\* t: a truncation when ids is empty, a re-creation when the file was deleted
ReplaceFile(ids, t) ==
  /\ nrepl < MaxReplaces
  /\ file' = Concat(ids)
  /\ mtime' = t
  /\ exists' = TRUE
  /\ nrepl' = nrepl + 1
  /\ UNCHANGED <<fmt, queryVars, auxVars, everPartial, npass, dropped, scanVars, ledgerVars, fragVars>>

\* The file is deleted
DeleteFile ==
  /\ exists /\ nrepl < MaxReplaces
  /\ exists' = FALSE
  /\ file' = <<>>
  /\ nrepl' = nrepl + 1
  /\ UNCHANGED <<fmt, queryVars, auxVars, mtime, everPartial, npass, dropped, scanVars, ledgerVars, fragVars>>

\* The writer appends a line to the file that is there
AppendExisting(l) == exists /\ AppendLine(l)

\* One call of scan(), with nothing happening to the file during the pass
ScanPass ==
  /\ pc = "idle" /\ npass < MaxPasses
  /\ \E r \in {scan(fmt, exists, fileStates, Len(file), mtime, file)} :
         /\ fileStates' = r.state
         /\ returned' = r.ret
         /\ parsedLines' = r.parsed
  /\ npass' = npass + 1
  /\ dropped' = (dropped \/ (~exists /\ fileStates # <<>>))
  /\ UNCHANGED <<fmt, queryVars, auxVars, file, mtime, everPartial, exists, nrepl, pc, statSize, statMtimeMs, ledgerVars, fragVars>>

InitReplace == Init

\* The lines the writers of this scenario put into the file
ReplaceLines(f) == {l \in LineIds(f) : l <= 2}

NextReplace ==
  \/ \E l \in ReplaceLines(fmt) : AppendExisting(l)
  \/ \E ids \in SeqsUpTo(ReplaceLines(fmt), 1) : \E t \in 0..MaxMtime : ReplaceFile(ids, t)
  \/ DeleteFile
  \/ ScanPass

SpecReplace == InitReplace /\ [][NextReplace]_vars

\* ------------------------------------------------------------------------
\* The two-fragment scenario: write, scan, append, scan, scan from scratch
\* ------------------------------------------------------------------------
FragWrite1 ==
  /\ fstep = "start"
  /\ file' = Concat(frag1)
  /\ mtime' = mtime + 1
  /\ fstep' = "w1"
  /\ UNCHANGED <<fmt, queryVars, auxVars, everPartial, pathVars, npass, scanVars, ledgerVars, frag1, frag2, fullEntries>>

\* scan() with nothing happening to the file during the pass
FragScan ==
  /\ fstep \in {"w1", "w2"}
  /\ \E r \in {ScanFile(fmt, fileStates, Len(file), mtime, file)} :
         /\ fileStates' = r.state
         /\ returned' = r.ret
         /\ parsedLines' = r.parsed
  /\ fstep' = IF fstep = "w1" THEN "s1" ELSE "s2"
  /\ UNCHANGED <<fmt, queryVars, auxVars, fileVars, npass, pc, statSize, statMtimeMs, ledgerVars,
                 frag1, frag2, fullEntries>>

FragAppend2 ==
  /\ fstep = "s1"
  /\ file' = file \o Concat(frag2)
  /\ mtime' = IF frag2 = <<>> THEN mtime ELSE mtime + 1
  /\ fstep' = "w2"
  /\ UNCHANGED <<fmt, queryVars, auxVars, everPartial, pathVars, npass, scanVars, ledgerVars, frag1, frag2, fullEntries>>

\* scan() of the whole file by a scanner that has no state for it
FragFullScan ==
  /\ fstep = "s2"
  /\ fullEntries' = ScanFile(fmt, <<>>, Len(file), mtime, file).ret
  /\ fstep' = "done"
  /\ UNCHANGED <<fmt, queryVars, auxVars, fileVars, npass, scanVars, ledgerVars, frag1, frag2>>

InitFrag ==
  /\ InitCommon
  /\ fmt \in Formats
  /\ db = EmptyStore
  /\ frag1 \in SeqsUpTo(LineIds(fmt), MaxFrag)
  /\ frag2 \in SeqsUpTo(LineIds(fmt), MaxFrag)
  /\ fstep = "start"

NextFrag ==
  \/ FragWrite1
  \/ FragScan
  \/ FragAppend2
  \/ FragFullScan

SpecFrag == InitFrag /\ [][NextFrag]_vars

\* ------------------------------------------------------------------------
\* The ledger on its own: logRequest, cleanupOldData, close, re-open
\* ------------------------------------------------------------------------
\* The requests callers issue
\* A dated name of claude-opus-4-6
MClaudeOpus46Dated == MClaudeOpus46 \o <<"-", "2", "0", "2", "6", "0", "2", "0", "5">>

\* A model name that MODEL_PRICING has no entry for
MUnknown == <<"m", "y", "-", "l", "l", "m">>

Requests ==
  [timestamp : {0, 2}, provider : {"anthropic"}, model : {MClaudeOpus46Dated, MUnknown},
   inputTokens : {1}, outputTokens : {1}, cacheReadInputTokens : {1},
   cacheCreationInputTokens : {0}, source : {"api"}]

\* The preCalculatedCost argument: left out, or a cost in micro-USD
PreCalculatedCosts == {NoCost, 0, 7}

\* The retention periods callers pass
RetentionDays == {0, 1}

\* A row as an older version of the program, without the unique index, left it
LegacyRow(id, cost) ==
  [id |-> id, timestamp |-> 0, provider |-> "anthropic", model |-> MClaudeOpus41,
   input_tokens |-> 1, output_tokens |-> 1, cache_read_input_tokens |-> 0,
   cache_creation_input_tokens |-> 0, estimated_cost |-> cost, source |-> "api"]

\* The store files the constructor can find: none, or one with a duplicated tuple
LegacyStores ==
  { EmptyStore,
    [rows |-> {LegacyRow(1, 90), LegacyRow(2, 90)}, nextId |-> 3] }

\* The tuple a request is stored under
RequestKey(e) ==
  <<e.timestamp, e.provider, normalizeModel(e.model, e.provider), e.source,
    e.inputTokens, e.outputTokens>>

LogRequest(e, c) ==
  /\ dbOpen /\ nreq < MaxRequests
  /\ db' = logRequest(db, e, c)
  /\ nreq' = nreq + 1
  /\ lastReq' = <<RequestKey(e), e, c>>
  /\ lastDays' = NoDays
  /\ UNCHANGED <<fmt, queryVars, auxVars, fileVars, npass, scanVars, dbOpen, now, fragVars>>

CleanupOldData(d) ==
  /\ dbOpen
  /\ db' = [db EXCEPT !.rows = cleanupOldData(@, d, now)]
  /\ lastReq' = NoReq
  /\ lastDays' = d
  /\ UNCHANGED <<fmt, queryVars, auxVars, fileVars, npass, scanVars, dbOpen, now, nreq, fragVars>>

\* close()
Close ==
  /\ dbOpen
  /\ dbOpen' = FALSE
  /\ lastReq' = NoReq /\ lastDays' = NoDays
  /\ UNCHANGED <<fmt, queryVars, auxVars, fileVars, npass, scanVars, db, now, nreq, fragVars>>

\* new AiUsageTracker(dbPath) on the store file left by close(): the
\* constructor throws, and no tracker exists, when the index cannot be created
Reopen ==
  /\ ~dbOpen
  /\ dbOpen' = createUniqueIndex(initDb(db.rows))
  /\ threw' = ~createUniqueIndex(initDb(db.rows))
  /\ db' = [db EXCEPT !.rows = initDb(@)]
  /\ lastReq' = NoReq /\ lastDays' = NoDays
  /\ UNCHANGED <<fmt, queryVars, count, arg, res, pairVars, extVars, fileVars, npass, scanVars, now, nreq, fragVars>>

\* Time passes
Tick ==
  /\ now < MaxNow
  /\ now' = now + 1
  /\ lastReq' = NoReq /\ lastDays' = NoDays
  /\ UNCHANGED <<fmt, queryVars, auxVars, fileVars, npass, scanVars, db, dbOpen, nreq, fragVars>>

InitLedger ==
  /\ InitCommon
  /\ fmt = "claude"
  /\ \E legacy \in LegacyStores : db = [legacy EXCEPT !.rows = initDb(@)]
  /\ frag1 = <<>> /\ frag2 = <<>> /\ fstep = "off"

NextLedger ==
  \/ \E e \in Requests : \E c \in PreCalculatedCosts : LogRequest(e, c)
  \/ \E d \in RetentionDays : CleanupOldData(d)
  \/ Close
  \/ Reopen
  \/ Tick

SpecLedger == InitLedger /\ [][NextLedger]_vars

\* ------------------------------------------------------------------------
\* getUsageSummary over a store and an instant
\* ------------------------------------------------------------------------
Periods == {"today", "week", "month"}

\* Two months of the clock; the calls are made in the second
SummaryClock == 0 .. (2 * DaysPerMonth * TicksPerDay - 1)
SummaryNows == {t \in SummaryClock : getMonth(t) = 1}

\* The timestamps of the stored rows: first and last tick of a day
SummaryStamps == {t \in SummaryClock : t % TicksPerDay \in {0, TicksPerDay - 1}}

\* A stored row
SummaryRow(id, ts, provider, cost) ==
  [id |-> id, timestamp |-> ts, provider |-> provider,
   model |-> IF provider = "openai" THEN MGpt5 ELSE MClaudeOpus41,
   input_tokens |-> 1, output_tokens |-> 1, cache_read_input_tokens |-> id - 1,
   cache_creation_input_tokens |-> 0, estimated_cost |-> cost, source |-> "api"]

\* The stores the calls find: at most a row of 0.004 USD and a row of
\* 0.006 USD, which the unique index allows side by side
SummaryStores ==
  { [rows |-> A \cup B, nextId |-> 3] :
      A \in {{}} \cup {{SummaryRow(1, ts, p, 4000)} :
                         ts \in SummaryStamps, p \in {"anthropic", "openai"}},
      B \in {{}} \cup {{SummaryRow(2, ts, "anthropic", 6000)} : ts \in SummaryStamps} }

GetUsageSummary(period) ==
  /\ dbOpen
  /\ summary' = <<getUsageSummary(db.rows, period, now)>>
  /\ UNCHANGED <<fmt, costIn, costOut, auxVars, fileVars, npass, scanVars, ledgerVars, fragVars>>

InitSummary ==
  /\ file = <<>> /\ mtime = 0 /\ everPartial = FALSE
  /\ exists = TRUE /\ nrepl = 0 /\ npass = 0 /\ dropped = FALSE
  /\ fileStates = <<>> /\ pc = "idle" /\ statSize = 0 /\ statMtimeMs = 0
  /\ returned = <<>> /\ parsedLines = 0
  /\ dbOpen = TRUE /\ nreq = 0 /\ lastReq = NoReq /\ lastDays = NoDays
  /\ fullEntries = <<>> /\ frag1 = <<>> /\ frag2 = <<>> /\ fstep = "off"
  /\ fmt = "claude"
  /\ summary = <<>> /\ costIn = NoArgs /\ costOut = NoCost
  /\ count = 0 /\ arg = <<>> /\ res = <<>> /\ threw = FALSE /\ InitPairManager /\ InitRelayClient /\ InitMonitor
  /\ now \in SummaryNows
  /\ db \in {d \in SummaryStores : UniqueIndexHolds(d.rows)}

NextSummary == \E period \in Periods : GetUsageSummary(period)

SpecSummary == InitSummary /\ [][NextSummary]_vars

\* ------------------------------------------------------------------------
\* calculateCost on its own
\* ------------------------------------------------------------------------
\* Token counts around the threshold of the tiered entries
CostTokens == {0, 1, 200000, 200001, 1000000}

\* The arguments calculateCost is called with
CostArgs ==
  [model : {MClaudeSonnet45, MClaudeOpus46, MClaudeOpus41},
   inputTokens : CostTokens, outputTokens : CostTokens,
   cacheReadTokens : CostTokens, cacheCreationTokens : CostTokens]

CalculateCost ==
  /\ costOut = NoCost
  /\ costOut' = calculateCost(costIn.model, costIn.inputTokens, costIn.outputTokens,
                              costIn.cacheReadTokens, costIn.cacheCreationTokens)
  /\ UNCHANGED <<fmt, costIn, summary, auxVars, fileVars, npass, scanVars, ledgerVars, fragVars>>

InitCost ==
  /\ file = <<>> /\ mtime = 0 /\ everPartial = FALSE
  /\ exists = TRUE /\ nrepl = 0 /\ npass = 0 /\ dropped = FALSE
  /\ fileStates = <<>> /\ pc = "idle" /\ statSize = 0 /\ statMtimeMs = 0
  /\ returned = <<>> /\ parsedLines = 0
  /\ dbOpen = TRUE /\ now = 0 /\ nreq = 0 /\ lastReq = NoReq /\ lastDays = NoDays
  /\ fullEntries = <<>> /\ frag1 = <<>> /\ frag2 = <<>> /\ fstep = "off"
  /\ fmt = "claude" /\ db = EmptyStore
  /\ summary = <<>> /\ costOut = NoCost
  /\ count = 0 /\ arg = <<>> /\ res = <<>> /\ threw = FALSE /\ InitPairManager /\ InitRelayClient /\ InitMonitor
  /\ costIn \in CostArgs

NextCost == CalculateCost

SpecCost == InitCost /\ [][NextCost]_vars

\* ------------------------------------------------------------------------
\* Vocabulary of the properties
\* ------------------------------------------------------------------------
Range(s) == {s[i] : i \in 1..Len(s)}
Count(x, s) == Cardinality({i \in 1..Len(s) : s[i] = x})
\* The same elements with the same multiplicities, order ignored
SameBag(s, t) == \A x \in Range(s) \cup Range(t) : Count(x, s) = Count(x, t)

\* The ids of the newline-terminated lines of a file, in order
FileLineIds(f) ==
  LET segs == Split(f)
  IN  [i \in 1..(Len(segs) - 1) |-> JsonParse(segs[i])[1]]

\* What a message-oriented line yields when it is parsed on its own
ClaudeAlone(l) == ClaudeParseLine(LineBody(l))

\* A counter line: an event_msg line as the writer produces them
IsCounterLine(l) == CodexLines[l].type = "event_msg"
\* The cumulative totals a counter line carries: <<>> or <<totals>>
CumulativeOf(l) ==
  IF IsCounterLine(l) THEN CodexLines[l].payload[1].info[1].total_token_usage ELSE <<>>

\* A line that carries usage
IsUsageLine(f, l) == IF f = "claude" THEN ClaudeAlone(l) # <<>> ELSE IsCounterLine(l)

\* The last index of ids below k that satisfies P, 0 when there is none
LastBelow(ids, k, P(_)) ==
  LET hits == {i \in 1..(k - 1) : P(ids[i])}
  IN  IF hits = {} THEN 0 ELSE CHOOSE i \in hits : \A j \in hits : i >= j

IsCumulative(l) == CumulativeOf(l) # <<>>
IsContext(l) == CodexLines[l].type = "turn_context"

\* The scanner is idle and its last pass saw the file as it is now, which
\* ends at a line boundary
CaughtUp ==
  /\ pc = "idle" /\ fileStates # <<>>
  /\ fileStates[1].lastSize = Len(file) /\ ~MidLine

\* ------------------------------------------------------------------------
\* C1  No double-counting under concurrent append
\* ------------------------------------------------------------------------
\* C1: while the writer appends only complete lines, at whatever moment
\* relative to a scan pass, the cached event list of the file never holds
\* more events than the file has lines carrying usage: no line is extracted
\* twice.
C1_NoDoubleCounting ==
  (~everPartial /\ fileStates # <<>>) =>
    Len(fileStates[1].entries)
      <= Cardinality({i \in 1..Len(FileLineIds(file)) : IsUsageLine(fmt, FileLineIds(file)[i])})

\* ------------------------------------------------------------------------
\* C2  No event loss at a scan boundary
\* ------------------------------------------------------------------------
\* C2: once the scanner has caught up with a file whose lines are all
\* complete, whatever partial states of the last line earlier passes saw,
\* every qualifying message line whose id pair no other line carries has its
\* event in the cached list, and the carried model and totals of a
\* counter-oriented file are those of its last context and cumulative lines.
C2_NoLossAtBoundary ==
  CaughtUp =>
    LET ids == FileLineIds(file)
    IN  IF fmt = "claude"
        THEN \A i \in 1..Len(ids) :
               LET r == ClaudeAlone(ids[i])
               IN  (/\ r # <<>>
                    /\ \A j \in 1..Len(ids) :
                         (j # i /\ ClaudeAlone(ids[j]) # <<>>)
                           => (r[1].key = <<>> \/ ClaudeAlone(ids[j])[1].key # r[1].key))
                   => r[1].entry \in Range(fileStates[1].entries)
        ELSE LET c == LastBelow(ids, Len(ids) + 1, IsCumulative)
                 m == LastBelow(ids, Len(ids) + 1, IsContext)
             IN  /\ fileStates[1].lastTotals =
                      IF c = 0 THEN <<>>
                      ELSE LET tt == CumulativeOf(ids[c])[1]
                           IN  <<[input |-> tt.input_tokens, cached |-> tt.cached_input_tokens,
                                  output |-> tt.output_tokens]>>
                 /\ fileStates[1].lastModel =
                      IF m = 0 THEN <<>> ELSE CodexLines[ids[m]].payload[1].model

\* The same, for a writer that never leaves a line unfinished
C2_HoldsWithoutPartialWrites == ~everPartial => C2_NoLossAtBoundary

\* ------------------------------------------------------------------------
\* C3  Ledger uniqueness
\* ------------------------------------------------------------------------
LedgerUnique == \A r, q \in db.rows : DedupKey(r) = DedupKey(q) => r = q

\* C3: whatever logRequest, cleanupOldData, close and re-open have done, the
\* store holds at most one record per tuple (timestamp, provider, canonical
\* model, source, inputTokens, outputTokens), and a logRequest whose tuple is
\* already stored leaves the store as it was.
C3_LedgerUniqueness ==
  /\ []LedgerUnique
  /\ [][(/\ nreq' = nreq + 1
         /\ \E r \in db.rows : DedupKey(r) = lastReq'[1]) => db' = db]_vars

\* A store that started empty has taken two or more requests and one insert
C3_Witness ==
  /\ nreq >= 2 /\ db.nextId = 2 /\ Cardinality(db.rows) = 1
  /\ dbOpen /\ lastReq # NoReq

\* ------------------------------------------------------------------------
\* C4  Message-oriented dedup is first-wins
\* ------------------------------------------------------------------------
\* The events of a range under first-wins: every keyless qualifying line,
\* and of the qualifying lines of one id pair the first
FirstWinsEntries(ids) ==
  LET kept == {i \in 1..Len(ids) :
                 /\ ClaudeAlone(ids[i]) # <<>>
                 /\ \/ ClaudeAlone(ids[i])[1].key = <<>>
                    \/ \A j \in 1..(i - 1) :
                         ClaudeAlone(ids[j]) # <<>>
                           => ClaudeAlone(ids[j])[1].key # ClaudeAlone(ids[i])[1].key}
      RECURSIVE Pick(_)
      Pick(i) == IF i > Len(ids) THEN <<>>
                 ELSE IF i \in kept THEN <<ClaudeAlone(ids[i])[1].entry>> \o Pick(i + 1)
                 ELSE Pick(i + 1)
  IN  Pick(1)

\* C4: the events of one parsed byte range are, order ignored, one event per
\* (message-id, request-id) pair with the token counts of the first line of
\* that pair, and one event per qualifying line without a pair.
C4_FirstWins ==
  (fstep = "done" /\ fmt = "claude") => SameBag(fullEntries, FirstWinsEntries(frag1 \o frag2))

\* ------------------------------------------------------------------------
\* C5  Incremental equals full scan, message-oriented
\* ------------------------------------------------------------------------
\* The id pairs the qualifying lines of a fragment carry
KeysOf(ids) ==
  {ClaudeAlone(ids[i])[1].key :
     i \in {j \in 1..Len(ids) : ClaudeAlone(ids[j]) # <<>> /\ ClaudeAlone(ids[j])[1].key # <<>>}}

\* C5 as claimed: for any two fragments, the scan after fragment 1 followed by
\* the scan after fragment 2 returns the same set of events as one scan of
\* the whole file from scratch.
C5_IncrementalEqualsFull_Claimed ==
  (fstep = "done" /\ fmt = "claude") => Range(returned) = Range(fullEntries)

\* C5 amended: the same, for two fragments whose qualifying lines share no
\* (message-id, request-id) pair; the events then agree with their
\* multiplicities.
C5_IncrementalEqualsFull ==
  (fstep = "done" /\ fmt = "claude" /\ KeysOf(frag1) \cap KeysOf(frag2) = {})
    => SameBag(returned, fullEntries)

C5_Witness ==
  /\ fstep = "done" /\ fmt = "claude"
  /\ frag1 # <<>> /\ parsedLines = Len(frag2)
  /\ KeysOf(frag1) # {} /\ KeysOf(frag1) \cap KeysOf(frag2) = {}
  /\ \E i \in 1..Len(frag2) : ClaudeAlone(frag2[i]) # <<>>
  /\ Len(returned) >= 2

\* ------------------------------------------------------------------------
\* C6  Incremental equals full scan, counter-oriented
\* ------------------------------------------------------------------------
\* C6: for any two fragments of context, cumulative and per-turn lines, the
\* scan after fragment 1 followed by the scan after fragment 2 returns the
\* events (models and deltas, in order) of one scan of the whole file from
\* scratch.
C6_IncrementalEqualsFull ==
  (fstep = "done" /\ fmt = "codex") => returned = fullEntries

\* A context line and a cumulative line before the boundary, a cumulative
\* line after it
C6_Witness ==
  /\ fstep = "done" /\ fmt = "codex"
  /\ frag1 # <<>> /\ parsedLines = Len(frag2)
  /\ \E i \in 1..Len(frag1) : IsContext(frag1[i])
  /\ \E i \in 1..Len(frag1) : IsCumulative(frag1[i])
  /\ \E i \in 1..Len(frag2) : IsCumulative(frag2[i])
  /\ Len(returned) >= 2

\* ------------------------------------------------------------------------
\* C7  Cache-hit purity
\* ------------------------------------------------------------------------
\* C7: a pass whose stat finds the size and the modification time recorded
\* by the last scan returns the list the previous call returned, parses no
\* line and leaves the file's scan state as it was.
C7_CacheHitPurity ==
  [][(/\ pc = "read" /\ pc' = "idle"
      /\ fileStates # <<>>
      /\ fileStates[1].lastSize = statSize
      /\ fileStates[1].lastMtimeMs = statMtimeMs)
     => (/\ returned' = returned
         /\ parsedLines' = 0
         /\ fileStates' = fileStates)]_vars

\* A completed pass that returned events and parsed no line
C7_Witness ==
  /\ pc = "idle" /\ parsedLines = 0 /\ returned # <<>>
  /\ returned = fileStates[1].entries

\* ------------------------------------------------------------------------
\* C8  Cumulative-delta correctness
\* ------------------------------------------------------------------------
\* The parser's accumulator after the first k lines of a file parsed from the
\* start
AccAfter(ids, k) ==
  CodexParseLines([i \in 1..k |-> LineBody(ids[i])],
                  [entries |-> <<>>, currentModel |-> <<>>, previousTotals |-> <<>>])

\* The totals of the cumulative line that precedes line k, zero without one
PrevCumulative(ids, k) ==
  LET c == LastBelow(ids, k, IsCumulative)
  IN  IF c = 0 THEN Tokens(0, 0, 0) ELSE CumulativeOf(ids[c])[1]

\* What cumulative line k of the file does, given the deltas it must emit
CumulativeStep(ids, k, emits(_, _, _, _, _)) ==
  LET cur == CumulativeOf(ids[k])[1]
      prev == PrevCumulative(ids, k)
      di == Max(0, cur.input_tokens - prev.input_tokens)
      dc == Max(0, cur.cached_input_tokens - prev.cached_input_tokens)
      do == Max(0, cur.output_tokens - prev.output_tokens)
  IN  /\ emits(AccAfter(ids, k - 1).entries, AccAfter(ids, k).entries, di, dc, do)
      /\ AccAfter(ids, k).previousTotals =
           <<[input |-> cur.input_tokens, cached |-> cur.cached_input_tokens,
              output |-> cur.output_tokens]>>

\* Line k appended one event with exactly these deltas
EmitsDeltas(before, after, di, dc, do) ==
  /\ Len(after) = Len(before) + 1
  /\ SubSeq(after, 1, Len(before)) = before
  /\ after[Len(after)].inputTokens = di
  /\ after[Len(after)].cachedInputTokens = dc
  /\ after[Len(after)].outputTokens = do

\* Line k appended nothing or one event whose cached delta is cut down to the
\* input delta: nothing when its deltas are all zero, one event when the input
\* or the output delta is not zero
EmitsClampedDeltas(before, after, di, dc, do) ==
  /\ after = before \/ EmitsDeltas(before, after, di, Min(dc, di), do)
  /\ (di = 0 /\ dc = 0 /\ do = 0) => after = before
  /\ (di # 0 \/ do # 0) => after # before

C9_CacheClamp ==
  /\ fileStates # <<>> =>
       \A e \in Range(fileStates[1].entries) :
         IF fmt = "claude"
         THEN /\ e.cacheReadInputTokens <= e.inputTokens
              /\ e.cacheCreationInputTokens <= e.inputTokens
         ELSE e.cachedInputTokens <= e.inputTokens
  /\ \A r \in db.rows :
       /\ r.cache_read_input_tokens <= r.input_tokens
       /\ r.cache_creation_input_tokens <= r.input_tokens

\* ------------------------------------------------------------------------
\* C10  Zero events are dropped
\* ------------------------------------------------------------------------
\* An event with a non-zero count
NonZeroEvent(f, e) ==
  IF f = "claude"
  THEN e.inputTokens # 0 \/ e.outputTokens # 0
       \/ e.cacheReadInputTokens # 0 \/ e.cacheCreationInputTokens # 0
  ELSE e.inputTokens # 0 \/ e.cachedInputTokens # 0 \/ e.outputTokens # 0

\* C10: every event a scanner caches or returns has at least one non-zero
\* count among its token fields.
C10_NoZeroEvents ==
  /\ \A e \in Range(returned) : NonZeroEvent(fmt, e)
  /\ fileStates # <<>> => \A e \in Range(fileStates[1].entries) : NonZeroEvent(fmt, e)

\* ------------------------------------------------------------------------
\* C11  Offset monotonicity with reset on replacement
\* ------------------------------------------------------------------------
\* A scan() call completes in this step
PassDone == npass' = npass + 1

\* The file found by the pass has a size or a modification time below the
\* recorded one
Regressed ==
  /\ exists /\ fileStates # <<>>
  /\ \/ Len(file) < fileStates[1].lastSize
     \/ mtime < fileStates[1].lastMtimeMs

\* What a scanner without any state for the path makes of the file
FreshScan == ScanFile(fmt, <<>>, Len(file), mtime, file)

\* C11: in a scan pass the recorded offset of the path decreases only when
\* the file found has a size or a modification time below the recorded one,
\* and in every pass that finds such a file the state is reset: it becomes
\* what a parse from byte 0 with no carried state gives.
C11_OffsetMonotonic ==
  [][PassDone =>
       /\ (/\ fileStates # <<>> /\ fileStates' # <<>>
           /\ fileStates'[1].lastOffset < fileStates[1].lastOffset) => Regressed
       /\ Regressed => fileStates' = FreshScan.state]_vars

\* ------------------------------------------------------------------------
\* C12  Shrunk file replaces the cache
\* ------------------------------------------------------------------------
\* C12: a scan pass that finds a cached file smaller than its recorded size,
\* a file of zero bytes included, replaces the cached list and resume state
\* by those of the present content and returns the events of the present
\* content only.
C12_ShrunkReplacesCache ==
  [][(/\ PassDone /\ exists /\ fileStates # <<>>
      /\ Len(file) < fileStates[1].lastSize)
       => /\ fileStates' = FreshScan.state
          /\ returned' = FreshScan.ret]_vars

\* ------------------------------------------------------------------------
\* C13  Gone files are dropped
\* ------------------------------------------------------------------------
\* C13: after a scan pass a cached state is held only for a path the pass
\* found, and a pass that does not find the file returns no event.
C13_GoneFilesDropped ==
  [][PassDone =>
       /\ fileStates' # <<>> => exists
       /\ ~exists => returned' = <<>>]_vars

\* A pass has deleted the cached state of the file, which is gone
C13_Witness == dropped /\ ~exists /\ fileStates = <<>> /\ returned = <<>>

\* ------------------------------------------------------------------------
\* C14  Unknown-model zero cost
\* ------------------------------------------------------------------------
\* This step is a logRequest call whose row is not ignored as a duplicate
Stored == lastReq' # NoReq /\ db'.nextId = db.nextId + 1

\* The one row this step added
NewRows == db'.rows \ db.rows

\* C14: a logRequest call for a model that the pricing table does not have,
\* given no precomputed cost, whose row is not ignored as a duplicate, adds
\* one row that carries the four token counts of the call and the estimated
\* cost 0, and leaves the other rows as they were.
C14_UnknownModelZeroCost ==
  [][(/\ Stored
      /\ lastReq'[3] = NoCost
      /\ lastReq'[1][3] \notin PricedModels)
       => /\ Cardinality(NewRows) = 1
          /\ db.rows \subseteq db'.rows
          /\ \A r \in NewRows :
               /\ r.estimated_cost = 0
               /\ r.input_tokens = lastReq'[2].inputTokens
               /\ r.output_tokens = lastReq'[2].outputTokens
               /\ r.cache_read_input_tokens = lastReq'[2].cacheReadInputTokens
               /\ r.cache_creation_input_tokens = lastReq'[2].cacheCreationInputTokens]_vars

\* A row of the unknown model is stored at cost 0 by a call without a cost
C14_Witness ==
  /\ lastReq # NoReq /\ lastReq[3] = NoCost /\ lastReq[2].model = MUnknown
  /\ \E r \in db.rows :
       /\ DedupKey(r) = lastReq[1] /\ r.id = db.nextId - 1
       /\ r.estimated_cost = 0 /\ r.cache_read_input_tokens = 1

\* ------------------------------------------------------------------------
\* C16  A precomputed cost is trusted verbatim
\* ------------------------------------------------------------------------
\* C16: the row a logRequest call stores has the precomputed cost of the
\* call as its estimated cost whenever one is given, a cost of 0 and a model
\* of the pricing table included; it has the cost computed from the table
\* only when none is given.
C16_PrecomputedVerbatim ==
  [][Stored =>
       \A r \in NewRows :
         /\ lastReq'[3] # NoCost => r.estimated_cost = lastReq'[3]
         /\ lastReq'[3] = NoCost =>
              r.estimated_cost =
                calculateCost(r.model, r.input_tokens, r.output_tokens,
                              r.cache_read_input_tokens, r.cache_creation_input_tokens)]_vars

\* A row of a priced model, whose table cost is not 0, is stored at the
\* precomputed cost 0
C16_Witness ==
  /\ lastReq # NoReq /\ lastReq[3] = 0 /\ lastReq[1][3] \in PricedModels
  /\ \E r \in db.rows :
       /\ DedupKey(r) = lastReq[1] /\ r.id = db.nextId - 1
       /\ r.estimated_cost = 0
       /\ calculateCost(r.model, r.input_tokens, r.output_tokens,
                        r.cache_read_input_tokens, r.cache_creation_input_tokens) # 0

\* ------------------------------------------------------------------------
\* C17  Stored records are immutable apart from one-time corrections
\* ------------------------------------------------------------------------
\* C17: every row of the store has been through the cost-correction sweep of
\* the constructor that opened the store or was written after it, so from
\* then on no step changes a field of a row that stays in the store.
C17_RecordsImmutable ==
  [][\A r \in db.rows : \A q \in db'.rows : q.id = r.id => q = r]_vars

\* ------------------------------------------------------------------------
\* C15  Tiered pricing per category
\* ------------------------------------------------------------------------
\* n tokens of one category split at the threshold T: the whole micro-USD and
\* the rest in nano-USD of min(n, T) at the base rate plus max(n - T, 0) at
\* the tier rate
SplitMicro(n, T, base, above) ==
  (Min(n, T) \div 1000) * base + (Max(n - T, 0) \div 1000) * above
SplitNano(n, T, base, above) ==
  (Min(n, T) % 1000) * base + (Max(n - T, 0) % 1000) * above

\* The claimed cost of a call for a pricing entry p with tier t, rounded to
\* the micro-USD
SplitTotal(a, p, t) ==
  SplitMicro(a.inputTokens, t.thresholdTokens, p.input, t.input)
  + SplitMicro(a.outputTokens, t.thresholdTokens, p.output, t.output)
  + SplitMicro(a.cacheReadTokens, t.thresholdTokens, p.cacheRead, t.cacheRead)
  + SplitMicro(a.cacheCreationTokens, t.thresholdTokens, p.cacheCreation, t.cacheCreation)
  + ( SplitNano(a.inputTokens, t.thresholdTokens, p.input, t.input)
      + SplitNano(a.outputTokens, t.thresholdTokens, p.output, t.output)
      + SplitNano(a.cacheReadTokens, t.thresholdTokens, p.cacheRead, t.cacheRead)
      + SplitNano(a.cacheCreationTokens, t.thresholdTokens, p.cacheCreation, t.cacheCreation)
      + 500 ) \div 1000

\* 1,000,000 input and 1,000,000 output tokens at the $3/$15 entry
C15_Example ==
  [model |-> MClaudeSonnet45, inputTokens |-> 1000000, outputTokens |-> 1000000,
   cacheReadTokens |-> 0, cacheCreationTokens |-> 0]

\* C15: for a model whose pricing entry has a tier, the cost calculateCost
\* returns is the sum over the four token categories of min(n, T) at the
\* category's base rate plus max(n - T, 0) at its tier rate, every category
\* split at T on its own count; for 1,000,000 input and 1,000,000 output
\* tokens at 3/15 USD per million and 6/22.5 above 200,000 it is 26.4 USD.
C15_TieredPerCategory ==
  (costOut # NoCost /\ MODEL_PRICING(costIn.model).aboveThreshold # NoTier)
    => /\ costOut = SplitTotal(costIn, MODEL_PRICING(costIn.model),
                               MODEL_PRICING(costIn.model).aboveThreshold)
       /\ costIn = C15_Example => costOut = 26400000

\* The cost of the example call has been computed
C15_Witness == costIn = C15_Example /\ costOut = 26400000

\* ------------------------------------------------------------------------
\* C20  Retention cleanup
\* ------------------------------------------------------------------------
\* C20: a cleanupOldData(d) call at instant now removes the rows whose
\* timestamp is earlier than now - d days and no other, leaves the rows that
\* stay as they are, and a second call with the same d at the same instant
\* would change nothing.
C20_RetentionCleanup ==
  [][lastDays' # NoDays =>
       /\ db'.rows = {r \in db.rows : r.timestamp >= now - lastDays' * TicksPerDay}
       /\ db'.nextId = db.nextId
       /\ cleanupOldData(db'.rows, lastDays', now') = db'.rows]_vars

\* A cleanup with one day of retention has just run on a store that took a
\* row at instant 0 and a row at instant 2: only the later one is left
C20_Witness ==
  /\ lastDays = 1 /\ now = 3 /\ db.nextId >= 3
  /\ \E r \in db.rows : r.timestamp = 2
  /\ \A r \in db.rows : r.timestamp # 0

\* ------------------------------------------------------------------------
\* C18  Period filtering
\* ------------------------------------------------------------------------
\* First tick of the local day of t
DayStart(t) == t - (t % TicksPerDay)

\* Where the window of a period opens: the start of the local day, the start
\* of the local day 7 days back, the start of the local month
WindowStart(period, t) ==
  IF period = "today" THEN DayStart(t)
  ELSE IF period = "week" THEN DayStart(t) - 7 * TicksPerDay
  ELSE t - (t % (TicksPerDay * DaysPerMonth))

\* The stored rows of a provider and model inside the window of the summary
InWindow(s, provider, model) ==
  {r \in db.rows : /\ r.provider = provider /\ r.model = model
                   /\ r.timestamp >= WindowStart(s.period, now)}

\* The model entries of a summary as (provider, model, count, cost)
Grouped(s) ==
  UNION { { <<s.providers[i].provider, s.providers[i].models[j].model,
              s.providers[i].models[j].requestCount, s.providers[i].models[j].totalCost>> :
              j \in DOMAIN s.providers[i].models } : i \in DOMAIN s.providers }

\* The same, counted from the stored rows inside the window
Expected(s) ==
  { <<r.provider, r.model, Cardinality(InWindow(s, r.provider, r.model)),
      SumField(InWindow(s, r.provider, r.model), "estimated_cost")>> :
      r \in {x \in db.rows : x.timestamp >= WindowStart(s.period, now)} }

\* A stored row from two days before the day of the call
TwoDaysOld(r) == DayStart(r.timestamp) = DayStart(now) - 2 * TicksPerDay

\* The stored rows that share the provider and model of r
Alike(r) == {q \in db.rows : q.provider = r.provider /\ q.model = r.model}

\* C18: the summary getUsageSummary(period) returns groups, by provider and
\* model, the stored rows whose timestamp is at or after the start of the
\* period's window and no other row: the start of the local day for today,
\* of the local day 7 days back for week, of the local month for month.  A
\* row two days old is counted by no group of today and by a group of week.
C18_PeriodFiltering ==
  summary # <<>> =>
    /\ Grouped(summary[1]) = Expected(summary[1])
    /\ \A r \in db.rows :
         TwoDaysOld(r) =>
           /\ summary[1].period = "today" =>
                \A g \in Grouped(summary[1]) :
                  (g[1] = r.provider /\ g[2] = r.model)
                    => g[3] <= Cardinality({q \in Alike(r) : ~TwoDaysOld(q)})
           /\ summary[1].period = "week" =>
                \E g \in Grouped(summary[1]) :
                  /\ g[1] = r.provider /\ g[2] = r.model
                  /\ g[3] >= Cardinality({q \in Alike(r) : TwoDaysOld(q)})

\* The week summary counts a row two days old
C18_Witness ==
  /\ summary # <<>> /\ summary[1].period = "week"
  /\ \E r \in db.rows : TwoDaysOld(r)
  /\ Len(summary[1].providers) = 1
  /\ summary[1].providers[1].requestCount = 2

\* ------------------------------------------------------------------------
\* C19  Headline totals are independent of the requested period
\* ------------------------------------------------------------------------
\* Sum of the estimated costs of the stored rows at or after instant t
CostSince(t) == SumField({r \in db.rows : r.timestamp >= t}, "estimated_cost")

\* C19 as claimed: whatever the period asked for, totalCostToday is the sum
\* of the estimated costs of the rows since the start of the local day and
\* totalCostThisMonth the sum since the start of the local month.
C19_HeadlineTotals_Claimed ==
  summary # <<>> =>
    /\ summary[1].totalCostToday = CostSince(WindowStart("today", now))
    /\ summary[1].totalCostThisMonth = CostSince(WindowStart("month", now))

\* The whole cent nearest to an amount in micro-USD, a half going up
NearestCent(x) ==
  IF x % 10000 >= 5000 THEN x - (x % 10000) + 10000 ELSE x - (x % 10000)

\* C19: whatever the period asked for, totalCostToday is the sum of the
\* estimated costs of the rows since the start of the local day, and
\* totalCostThisMonth the sum since the start of the local month, each
\* rounded to the nearest cent.
C19_HeadlineTotals ==
  summary # <<>> =>
    /\ summary[1].totalCostToday = NearestCent(CostSince(WindowStart("today", now)))
    /\ summary[1].totalCostThisMonth = NearestCent(CostSince(WindowStart("month", now)))

\* A week summary over a store with 0.006 USD today and 0.010 USD within the
\* week and the month: the headline totals are one cent each
C19_Witness ==
  /\ summary # <<>> /\ summary[1].period = "week"
  /\ CostSince(WindowStart("today", now)) = 6000
  /\ CostSince(WindowStart("month", now)) = 10000
  /\ CostSince(WindowStart("week", now)) = 10000
  /\ summary[1].totalCostToday = 10000 /\ summary[1].totalCostThisMonth = 10000

\* ------------------------------------------------------------------------
\* C26  scanLocalLogs returns the number of records it added
\* ------------------------------------------------------------------------
\* C26: the count a scanLocalLogs call returns equals the number of records
\* the call added to the ledger, so a call with no change of the source file
\* returns 0.
C26_CountIsNewRecords ==
  [][ScanLocalLogs => count' = Cardinality(db'.rows) - Cardinality(db.rows)]_vars

\* ------------------------------------------------------------------------
\* Retention and ingestion: the periodic scanLocalLogs and the daily
\* cleanupOldData of OpenClawMonitor, on one store
\* ------------------------------------------------------------------------
InitRetain == Init

\* Row ids the store hands out before the model stops ingesting
MaxIds == 4

NextRetain ==
  \/ \E l \in LineIds(fmt) : AppendLine(l)
  \/ db.nextId <= MaxIds /\ ScanLocalLogs
  \/ \E d \in RetentionDays : CleanupOldData(d)
  \/ Tick

SpecRetain == InitRetain /\ [][NextRetain]_vars

\* ------------------------------------------------------------------------
\* C30  Retention survives ingestion
\* ------------------------------------------------------------------------
\* The source file is as the scan pass before left it
SourceUnchanged == IsCacheHit(fileStates, Len(file), mtime)

\* C30: after cleanupOldData(d) has removed the old records, a scanLocalLogs
\* call over an unchanged source file adds no record older than the cutoff
\* of that cleanup.
C30_RetentionSurvivesIngestion ==
  [][(ScanLocalLogs /\ lastDays # NoDays /\ SourceUnchanged) =>
       \A r \in db'.rows \ db.rows : r.timestamp >= now - lastDays * TicksPerDay]_vars

\* ------------------------------------------------------------------------
\* The normalizers on their own: a scanner normalizes a raw model name and
\* logRequest normalizes the scanner's result again
\* ------------------------------------------------------------------------
\* Raw Codex model names: vendor prefixes, bases and suffixes as logs carry them
RawCodexModels ==
  { p \o b \o s : p \in {<<>>, <<" ">>, OpenaiPrefix, OpenaiPrefix \o OpenaiPrefix},
                  b \in {MGpt5, MGpt51, <<"g", "p", "t", "-", "4", "o">>},
                  s \in {<<>>, <<" ">>, CodexSuffix, CodexSuffix \o <<"-", "m", "a", "x">>} }

\* Raw Claude model names: vendor prefixes, bases, dates and version suffixes
RawClaudeModels ==
  { p \o b \o d \o v : p \in {<<>>, AnthropicPrefix, <<"u", "s", ".">> \o AnthropicPrefix},
                       b \in {MClaudeOpus41, MClaudeOpus46, <<"c", "l", "a", "u", "d", "e", "-", "x">>},
                       d \in {<<>>, <<"-", "2", "0", "2", "5", "0", "8", "0", "5">>,
                              <<"@", "2", "0", "2", "5", "0", "8", "0", "5">>},
                       v \in {<<>>, <<"-", "v", "1", ":", "0">>} }

\* The model names of a provider family
RawModels ==
  [provider : {"openai"}, model : RawCodexModels] \cup
  [provider : {"anthropic"}, model : RawClaudeModels]

\* The scanner of the family normalizes the raw name of a log line
ScannerNormalize ==
  /\ arg # <<>> /\ res = <<>>
  /\ res' = <<IF arg[1].provider = "openai" THEN normalizeCodexModel(arg[1].model)
              ELSE normalizeClaudeModel(arg[1].model)>>
  /\ UNCHANGED <<fmt, queryVars, count, arg, threw, pairVars, extVars, fileVars, npass, scanVars, ledgerVars, fragVars>>

\* logRequest normalizes the name the scanner emitted, to store it
LedgerNormalize ==
  /\ Len(res) = 1
  /\ res' = Append(res, normalizeModel(res[1], arg[1].provider))
  /\ UNCHANGED <<fmt, queryVars, count, arg, threw, pairVars, extVars, fileVars, npass, scanVars, ledgerVars, fragVars>>

InitNormalize ==
  /\ file = <<>> /\ mtime = 0 /\ everPartial = FALSE
  /\ exists = TRUE /\ nrepl = 0 /\ npass = 0 /\ dropped = FALSE
  /\ fileStates = <<>> /\ pc = "idle" /\ statSize = 0 /\ statMtimeMs = 0
  /\ returned = <<>> /\ parsedLines = 0
  /\ dbOpen = TRUE /\ now = 0 /\ nreq = 0 /\ lastReq = NoReq /\ lastDays = NoDays
  /\ fullEntries = <<>> /\ frag1 = <<>> /\ frag2 = <<>> /\ fstep = "off"
  /\ fmt = "claude" /\ db = EmptyStore
  /\ summary = <<>> /\ costIn = NoArgs /\ costOut = NoCost
  /\ count = 0 /\ res = <<>> /\ threw = FALSE /\ InitPairManager /\ InitRelayClient /\ InitMonitor
  /\ \E x \in RawModels : arg = <<x>>

NextNormalize == ScannerNormalize \/ LedgerNormalize

SpecNormalize == InitNormalize /\ [][NextNormalize]_vars

\* ------------------------------------------------------------------------
\* C24  Normalizer idempotence
\* ------------------------------------------------------------------------
\* C24: for every raw model name of either provider family, normalizing the
\* normalized name gives the normalized name again: the key the ledger
\* stores is the name the scanner emitted.
C24_NormalizerIdempotent == Len(res) = 2 => res[2] = res[1]

\* ------------------------------------------------------------------------
\* Aggregation: logRequest calls stamped with Date.now(), then a summary
\* ------------------------------------------------------------------------
\* What the calls have in common: provider, model, token counts and source
AggregateRequests ==
  [provider : {"anthropic"}, model : {MClaudeOpus41, MUnknown},
   inputTokens : {1, 100}, outputTokens : {50}, cacheReadInputTokens : {0},
   cacheCreationInputTokens : {0}, source : {"discord"}]

\* The entry of a call made at instant t
StampedAt(common, t) ==
  [timestamp |-> t, provider |-> common.provider, model |-> common.model,
   inputTokens |-> common.inputTokens, outputTokens |-> common.outputTokens,
   cacheReadInputTokens |-> common.cacheReadInputTokens,
   cacheCreationInputTokens |-> common.cacheCreationInputTokens,
   source |-> common.source]

\* tracker.logRequest({timestamp: Date.now(), ...}): the clock may not have
\* advanced since the call before
LogRequestNow == LogRequest(StampedAt(arg[1], now), NoCost)

InitAggregate ==
  /\ file = <<>> /\ mtime = 0 /\ everPartial = FALSE
  /\ exists = TRUE /\ nrepl = 0 /\ npass = 0 /\ dropped = FALSE
  /\ fileStates = <<>> /\ pc = "idle" /\ statSize = 0 /\ statMtimeMs = 0
  /\ returned = <<>> /\ parsedLines = 0
  /\ dbOpen = TRUE /\ now = 0 /\ nreq = 0 /\ lastReq = NoReq /\ lastDays = NoDays
  /\ fullEntries = <<>> /\ frag1 = <<>> /\ frag2 = <<>> /\ fstep = "off"
  /\ fmt = "claude" /\ db = EmptyStore
  /\ summary = <<>> /\ costIn = NoArgs /\ costOut = NoCost
  /\ count = 0 /\ res = <<>> /\ threw = FALSE /\ InitPairManager /\ InitRelayClient /\ InitMonitor
  /\ \E common \in AggregateRequests : arg = <<common>>

NextAggregate ==
  \/ LogRequestNow
  \/ Tick
  \/ \E period \in Periods : GetUsageSummary(period)

SpecAggregate == InitAggregate /\ [][NextAggregate]_vars

\* ------------------------------------------------------------------------
\* C27  Every logged request is aggregated
\* ------------------------------------------------------------------------
\* The one provider summary reports n requests of the token counts of common
ReportsAll(s, n, common) ==
  /\ Len(s.providers) = 1
  /\ s.providers[1].requestCount = n
  /\ s.providers[1].totalInputTokens = n * common.inputTokens
  /\ s.providers[1].totalOutputTokens = n * common.outputTokens

\* C27: after nreq logRequest calls for one provider and model, with the
\* same token counts and source and with timestamps inside the queried
\* window, getUsageSummary reports requestCount nreq and token sums of nreq
\* times the counts of a call.
C27_EveryRequestAggregated ==
  [][\A period \in Periods :
       (/\ GetUsageSummary(period)
        /\ nreq > 0
        /\ \A r \in db.rows : r.timestamp >= WindowStart(period, now)) =>
         ReportsAll(summary'[1], nreq, arg[1])]_vars

\* ------------------------------------------------------------------------
\* Opening store files that an older version of the program wrote
\* ------------------------------------------------------------------------
\* Rows a store file written without the unique index can hold
MaxLegacyRows == 3

\* A row of such a file: the opus-4-6 rows carry the old, too high cost
OldRow(id, ts, model) ==
  [id |-> id, timestamp |-> ts, provider |-> "anthropic", model |-> model,
   input_tokens |-> 1, output_tokens |-> 1, cache_read_input_tokens |-> 0,
   cache_creation_input_tokens |-> 0, estimated_cost |-> 90, source |-> "api"]

\* The rows of the files: an id is free, or taken by one of four tuples.
\* arg keeps the rows the file held before it was first opened.
OldRowSets ==
  { {OldRow(id, pick[id][1], pick[id][2]) : id \in {i \in 1..MaxLegacyRows : pick[i] # <<>>}} :
      pick \in [1..MaxLegacyRows -> {<<>>} \cup ({0, 1} \X {MClaudeOpus41, MClaudeOpus46})] }

InitOpen ==
  /\ file = <<>> /\ mtime = 0 /\ everPartial = FALSE
  /\ exists = TRUE /\ nrepl = 0 /\ npass = 0 /\ dropped = FALSE
  /\ fileStates = <<>> /\ pc = "idle" /\ statSize = 0 /\ statMtimeMs = 0
  /\ returned = <<>> /\ parsedLines = 0
  /\ now = 0 /\ nreq = 0 /\ lastReq = NoReq /\ lastDays = NoDays
  /\ fullEntries = <<>> /\ frag1 = <<>> /\ frag2 = <<>> /\ fstep = "off"
  /\ fmt = "claude"
  /\ summary = <<>> /\ costIn = NoArgs /\ costOut = NoCost
  /\ count = 0 /\ res = <<>> /\ threw = FALSE /\ InitPairManager /\ InitRelayClient /\ InitMonitor
  /\ dbOpen = FALSE
  /\ \E rows \in OldRowSets :
       /\ arg = <<rows>>
       /\ db = [rows |-> rows, nextId |-> MaxLegacyRows + 1]

NextOpen == Reopen \/ Close

SpecOpen == InitOpen /\ [][NextOpen]_vars

\* ------------------------------------------------------------------------
\* C28  Migration ordering
\* ------------------------------------------------------------------------
\* The lowest id among the rows that carry the tuple of r
LowestId(rows, r) ==
  CHOOSE i \in {q.id : q \in {x \in rows : DedupKey(x) = DedupKey(r)}} :
    \A q \in rows : DedupKey(q) = DedupKey(r) => i <= q.id

\* C28: every open succeeds, duplicates in the file or not, and leaves
\* exactly one record of every tuple the file held, the one with the lowest
\* id; opening the store it leaves once more, with no write in between,
\* would succeed and change nothing.
C28_MigrationOrdering ==
  [][Reopen =>
       /\ dbOpen' /\ ~threw'
       /\ UniqueIndexHolds(db'.rows)
       /\ {q.id : q \in db'.rows} = {LowestId(db.rows, r) : r \in db.rows}
       /\ \A q \in db'.rows : \E r \in db.rows : r.id = q.id /\ DedupKey(r) = DedupKey(q)
       /\ createUniqueIndex(initDb(db'.rows))
       /\ initDb(db'.rows) = db'.rows]_vars

\* A file that held the same tuple under the ids 1, 2 and 3 has been opened:
\* the tracker exists and the row of id 1 is the only one left
C28_Witness ==
  /\ dbOpen /\ ~threw
  /\ arg[1] = {OldRow(id, 0, MClaudeOpus41) : id \in 1..3}
  /\ db.rows = {OldRow(1, 0, MClaudeOpus41)}

\* ------------------------------------------------------------------------
\* The roots of the two scanners: getProjectRoots and getSessionRoots
\* ------------------------------------------------------------------------
\* Paths are strings of one-character strings; no path of the model ends in
\* a slash or holds a "." or ".." segment, so path.join has nothing to
\* normalize beyond the separator it puts in.
ProjectsName == <<"p", "r", "o", "j", "e", "c", "t", "s">>
SessionsName == <<"s", "e", "s", "s", "i", "o", "n", "s">>
ArchivedName == <<"a", "r", "c", "h", "i", "v", "e", "d", "_">> \o SessionsName

\* os.homedir()
HomeDir == <<"/", "h">>

\* path.join(a, b)
PathJoin(a, b) == IF a # <<>> /\ a[Len(a)] = "/" THEN a \o b ELSE a \o <<"/">> \o b

\* path.basename(p)
PathBasename(p) == SliceFrom(p, LastIndexOf(p, <<"/">>) + 1)

\* s.split(','), from position i on with cur collected
RECURSIVE SplitCommaFrom(_, _, _)
SplitCommaFrom(s, i, cur) ==
  IF i > Len(s) THEN <<cur>>
  ELSE IF s[i] = "," THEN <<cur>> \o SplitCommaFrom(s, i + 1, <<>>)
  ELSE SplitCommaFrom(s, i + 1, Append(cur, s[i]))

\* The loop body of getProjectRoots for the parts, in order
RECURSIVE ProjectRootsOf(_)
ProjectRootsOf(parts) ==
  IF parts = <<>> THEN <<>>
  ELSE IF Trim(Head(parts)) = <<>> THEN ProjectRootsOf(Tail(parts))
  ELSE IF PathBasename(Trim(Head(parts))) = ProjectsName
  THEN <<Trim(Head(parts))>> \o ProjectRootsOf(Tail(parts))
  ELSE <<PathJoin(Trim(Head(parts)), ProjectsName)>> \o ProjectRootsOf(Tail(parts))

\* process.env.NAME?.trim(): env is <<>> (unset) or <<value>>; the result is
\* <<>> when it is falsy
EnvTrimmed(env) == IF env = <<>> THEN <<>> ELSE Trim(env[1])

\* getProjectRoots with "projects" appended to every listed path
getProjectRoots_AlwaysAppend(env) ==
  IF EnvTrimmed(env) # <<>>
  THEN [i \in 1..Len(SelectSeq(SplitCommaFrom(EnvTrimmed(env), 1, <<>>), LAMBDA p : Trim(p) # <<>>)) |->
          PathJoin(Trim(SelectSeq(SplitCommaFrom(EnvTrimmed(env), 1, <<>>), LAMBDA p : Trim(p) # <<>>)[i]), ProjectsName)]
  ELSE << PathJoin(PathJoin(PathJoin(HomeDir, <<".", "c", "o", "n", "f", "i", "g">>),
                            <<"c", "l", "a", "u", "d", "e">>), ProjectsName),
          PathJoin(PathJoin(HomeDir, <<".", "c", "l", "a", "u", "d", "e">>), ProjectsName) >>

\* ClaudeLogScanner.getProjectRoots() with CLAUDE_CONFIG_DIR = env
getProjectRoots(env) ==
  IF EnvTrimmed(env) # <<>>
  THEN ProjectRootsOf(SplitCommaFrom(EnvTrimmed(env), 1, <<>>))
  ELSE << PathJoin(PathJoin(PathJoin(HomeDir, <<".", "c", "o", "n", "f", "i", "g">>),
                            <<"c", "l", "a", "u", "d", "e">>), ProjectsName),
          PathJoin(PathJoin(HomeDir, <<".", "c", "l", "a", "u", "d", "e">>), ProjectsName) >>

\* The codexHome of getSessionRoots: envHome || path.join(os.homedir(), '.codex')
CodexHome(env) ==
  IF EnvTrimmed(env) # <<>> THEN EnvTrimmed(env)
  ELSE PathJoin(HomeDir, <<".", "c", "o", "d", "e", "x">>)

\* CodexLogScanner.getSessionRoots() with CODEX_HOME = env; archived is
\* fs.existsSync(archivedDir)
getSessionRoots(env, archived) ==
  IF archived
  THEN <<PathJoin(CodexHome(env), SessionsName), PathJoin(CodexHome(env), ArchivedName)>>
  ELSE <<PathJoin(CodexHome(env), SessionsName)>>

\* What a comma-separated part of an override variable can be
EnvParts(subdir) ==
  { <<>>, <<" ">>, <<"/", "a">>, <<" ", "/", "b", " ">>, <<"/", "a", "/">> \o subdir,
    <<"/">> \o subdir, <<"/", "a", "/">> \o subdir \o <<"x">> }

\* The values of an override variable: unset, one part, or two parts
EnvValues(subdir) ==
  {<<>>} \cup {<<p>> : p \in EnvParts(subdir)}
         \cup {<<p \o <<",">> \o q>> : p \in EnvParts(subdir), q \in EnvParts(subdir)}

\* The calls under study
RootCalls ==
  [family : {"claude"}, env : EnvValues(ProjectsName), archived : {FALSE}] \cup
  [family : {"codex"}, env : EnvValues(SessionsName), archived : BOOLEAN]

\* scan() asks for the roots
GetRoots ==
  /\ arg # <<>> /\ res = <<>>
  /\ res' = <<IF arg[1].family = "claude" THEN getProjectRoots(arg[1].env)
              ELSE getSessionRoots(arg[1].env, arg[1].archived)>>
  /\ UNCHANGED <<fmt, queryVars, count, arg, threw, pairVars, extVars, fileVars, npass, scanVars, ledgerVars, fragVars>>

InitRoots ==
  /\ file = <<>> /\ mtime = 0 /\ everPartial = FALSE
  /\ exists = TRUE /\ nrepl = 0 /\ npass = 0 /\ dropped = FALSE
  /\ fileStates = <<>> /\ pc = "idle" /\ statSize = 0 /\ statMtimeMs = 0
  /\ returned = <<>> /\ parsedLines = 0
  /\ dbOpen = TRUE /\ now = 0 /\ nreq = 0 /\ lastReq = NoReq /\ lastDays = NoDays
  /\ fullEntries = <<>> /\ frag1 = <<>> /\ frag2 = <<>> /\ fstep = "off"
  /\ fmt = "claude" /\ db = EmptyStore
  /\ summary = <<>> /\ costIn = NoArgs /\ costOut = NoCost
  /\ count = 0 /\ res = <<>> /\ threw = FALSE /\ InitPairManager /\ InitRelayClient /\ InitMonitor
  /\ \E c \in RootCalls : arg = <<c>>

NextRoots == GetRoots

SpecRoots == InitRoots /\ [][NextRoots]_vars

\* ------------------------------------------------------------------------
\* C25  Environment override of roots
\* ------------------------------------------------------------------------
\* The listed paths of an override value: its comma-separated parts without
\* the white space around them, blank parts left out
Listed(env) ==
  LET parts == SplitCommaFrom(Trim(env[1]), 1, <<>>)
      named == SelectSeq(parts, LAMBDA p : Trim(p) # <<>>)
  IN  [i \in 1..Len(named) |-> Trim(named[i])]

\* The last segment of a path
LastSegment(p) ==
  IF \E i \in 1..Len(p) : p[i] = "/"
  THEN SubSeq(p, (CHOOSE i \in 1..Len(p) : p[i] = "/" /\ \A j \in (i + 1)..Len(p) : p[j] # "/") + 1, Len(p))
  ELSE p

\* A listed path as the claim has it used: as it is when its last segment is
\* the subdirectory name, with the name appended otherwise
UsedAs(p, subdir) == IF LastSegment(p) = subdir THEN p ELSE p \o <<"/">> \o subdir

\* The variable is unset or empty
Unset(env) == env = <<>> \/ Trim(env[1]) = <<>>

\* The roots of a family by the rule of the claim
OverrideRule(env, subdir) == [i \in 1..Len(Listed(env)) |-> UsedAs(Listed(env)[i], subdir)]

\* C25 as claimed: for each of the two families the override variable is
\* split on commas, each listed path is used as it is when its last segment
\* is the expected subdirectory name and has the name appended otherwise,
\* and the defaults are used only when the variable is unset or empty (the
\* root of an existing archive directory, which comes last, is left aside).
C25_EnvOverride_Claimed ==
  res # <<>> =>
    /\ ~Unset(arg[1].env) =>
         SubSeq(res[1], 1, Len(res[1]) - (IF arg[1].archived THEN 1 ELSE 0)) =
           OverrideRule(arg[1].env,
                        IF arg[1].family = "claude" THEN ProjectsName ELSE SessionsName)
    /\ (\E i \in 1..Len(res[1]) : StartsWith(res[1][i], HomeDir \o <<"/">>)) => Unset(arg[1].env)

\* C25: the Claude variable is split on commas, each listed path is used as
\* it is when its last segment is "projects" and has "projects" appended
\* otherwise; the Codex variable names one home directory, whose "sessions"
\* subdirectory is a root, and whose "archived_sessions" subdirectory is a
\* second root when it exists; the defaults are used only when the variable
\* is unset or empty.
C25_EnvOverride ==
  res # <<>> =>
    /\ (arg[1].family = "claude" /\ ~Unset(arg[1].env)) =>
         res[1] = OverrideRule(arg[1].env, ProjectsName)
    /\ (arg[1].family = "codex" /\ ~Unset(arg[1].env)) =>
         /\ res[1][1] = Trim(arg[1].env[1]) \o <<"/">> \o SessionsName
         /\ Len(res[1]) = (IF arg[1].archived THEN 2 ELSE 1)
         /\ arg[1].archived => res[1][2] = Trim(arg[1].env[1]) \o <<"/">> \o ArchivedName
    /\ (\E i \in 1..Len(res[1]) : StartsWith(res[1][i], HomeDir \o <<"/">>)) => Unset(arg[1].env)

\* getProjectRoots has answered for CLAUDE_CONFIG_DIR = "/a/projects, /b ":
\* the first path is used as it is, the second has the name appended
C25_Witness ==
  /\ res # <<>> /\ arg[1].family = "claude"
  /\ arg[1].env = << <<"/", "a", "/">> \o ProjectsName \o <<",", " ", "/", "b", " ">> >>
  /\ res[1] = << <<"/", "a", "/">> \o ProjectsName, <<"/", "b", "/">> \o ProjectsName >>

\* ------------------------------------------------------------------------
\* CodexLogScanner.parseFile on the lines of one read
\* ------------------------------------------------------------------------
\* A line of the read is <<>> when JSON.parse throws on its text, and <<L>>
\* when it parses to the object L.

\* Lines of one read
MaxTexts == 3

\* A counter line with the model members top (on the object), pay (on the
\* payload), inf and name (model and model_name of the info)
CounterLine(ts, top, pay, inf, name, total, last) ==
  [sep |-> "", type |-> "event_msg", timestamp |-> ts, model |-> top,
   payload |-> <<[type |-> "token_count", model |-> pay,
                  info |-> <<[model |-> inf, model_name |-> name,
                              total_token_usage |-> total,
                              last_token_usage |-> last]>>]>>]

\* A context line that names the model m
ContextLine(m) ==
  [sep |-> "", type |-> "turn_context", timestamp |-> 0, model |-> <<>>,
   payload |-> <<[type |-> "", model |-> m, info |-> <<>>]>>]

\* One iteration of the loop over the lines, on a line already split off
CodexParseText(acc, text) == IF text = <<>> THEN acc ELSE CodexObject(acc, text[1])

RECURSIVE CodexParseTexts(_, _)
CodexParseTexts(texts, acc) ==
  IF texts = <<>> THEN acc
  ELSE CodexParseTexts(Tail(texts), CodexParseText(acc, Head(texts)))

\* parseFile on the lines texts with the carried model and totals
CodexParse(texts, initialModel, initialTotals) ==
  CodexResult(CodexParseTexts(texts, [entries |-> <<>>, currentModel |-> initialModel,
                                      previousTotals |-> initialTotals]))

\* Model names, one per place a model can be read from
MTop == <<"o", "1">>
MPayload == <<"o", "3">>
MInfoName == <<"o", "4">>
MContext == <<"g", "p", "t", "-", "4", "o">>
MCarried == <<"g", "p", "t", "-", "4">>

\* Reads of one counter line, after a context line or not, with a model
\* carried from the pass before or not
ModelReads ==
  { [texts |-> ctx \o << <<CounterLine(1, top, pay, inf, name, <<Tokens(1, 0, 1)>>, <<>>)>> >>,
     initialModel |-> carried, initialTotals |-> <<>>] :
      ctx \in {<<>>, << <<ContextLine(MContext)>> >>},
      carried \in {<<>>, MCarried},
      top \in {<<>>, MTop}, pay \in {<<>>, MPayload},
      inf \in {<<>>, MCodexRaw}, name \in {<<>>, MInfoName} }

\* The lines of the reads with malformed lines: text that is not JSON, a
\* counter line without timestamp, with a timestamp that is no date, without
\* payload, without info, without usage, with a total_token_usage that holds
\* no count, a context line without payload; and three well-formed lines
ReadLines ==
  { <<>>,
    <<CounterLine(NoTs, <<>>, <<>>, <<>>, <<>>, <<Tokens(9, 0, 9)>>, <<>>)>>,
    <<CounterLine(BadTs, <<>>, <<>>, <<>>, <<>>, <<Tokens(9, 0, 9)>>, <<>>)>>,
    <<[sep |-> "", type |-> "event_msg", timestamp |-> 1, model |-> MTop, payload |-> <<>>]>>,
    <<[sep |-> "", type |-> "event_msg", timestamp |-> 1, model |-> <<>>,
       payload |-> <<[type |-> "token_count", model |-> MPayload, info |-> <<>>]>>]>>,
    <<CounterLine(1, <<>>, <<>>, <<>>, <<>>, <<>>, <<>>)>>,
    <<CounterLine(1, <<>>, <<>>, <<>>, <<>>,
                  <<Tokens(NotANumber, NotANumber, NotANumber)>>, <<>>)>>,
    <<[sep |-> "", type |-> "turn_context", timestamp |-> 0, model |-> <<>>, payload |-> <<>>]>>,
    <<ContextLine(MContext)>>,
    <<CounterLine(1, <<>>, <<>>, <<>>, <<>>, <<Tokens(3, 1, 2)>>, <<>>)>>,
    <<CounterLine(2, <<>>, <<>>, <<>>, <<>>, <<Tokens(5, 1, 3)>>, <<>>)>> }

\* Reads of up to MaxTexts such lines, with nothing carried
LineReads ==
  { [texts |-> t, initialModel |-> <<>>, initialTotals |-> <<>>] :
      t \in UNION {[1..n -> ReadLines] : n \in 1..MaxTexts} }

\* scanFile calls parseFile
ParseFile ==
  /\ arg # <<>> /\ res = <<>>
  /\ res' = <<CodexParse(arg[1].texts, arg[1].initialModel, arg[1].initialTotals)>>
  /\ UNCHANGED <<fmt, queryVars, count, arg, threw, pairVars, extVars, fileVars, npass, scanVars, ledgerVars, fragVars>>

InitParse ==
  /\ file = <<>> /\ mtime = 0 /\ everPartial = FALSE
  /\ exists = TRUE /\ nrepl = 0 /\ npass = 0 /\ dropped = FALSE
  /\ fileStates = <<>> /\ pc = "idle" /\ statSize = 0 /\ statMtimeMs = 0
  /\ returned = <<>> /\ parsedLines = 0
  /\ dbOpen = TRUE /\ now = 0 /\ nreq = 0 /\ lastReq = NoReq /\ lastDays = NoDays
  /\ fullEntries = <<>> /\ frag1 = <<>> /\ frag2 = <<>> /\ fstep = "off"
  /\ fmt = "codex" /\ db = EmptyStore
  /\ summary = <<>> /\ costIn = NoArgs /\ costOut = NoCost
  /\ count = 0 /\ res = <<>> /\ threw = FALSE /\ InitPairManager /\ InitRelayClient /\ InitMonitor
  /\ \E r \in ModelReads \cup LineReads : arg = <<r>>

NextParse == ParseFile

SpecParse == InitParse /\ [][NextParse]_vars

\* ------------------------------------------------------------------------
\* C23  Model resolution precedence for a counter line
\* ------------------------------------------------------------------------
\* The first model of a list of optional models that is present
RECURSIVE FirstPresent(_)
FirstPresent(ms) ==
  IF ms = <<>> THEN <<>> ELSE IF Head(ms) # <<>> THEN Head(ms) ELSE FirstPresent(Tail(ms))

\* The counter line of a read of ModelReads, and its info
CounterOf(r) == r.texts[Len(r.texts)][1]
InfoOf(r) == CounterOf(r).payload[1].info[1]

\* The model of the most recently seen context line, carried from the pass
\* before when the read holds none
ContextModel(r) == IF Len(r.texts) = 2 THEN MContext ELSE r.initialModel

\* C23 as claimed: the model of the event of a counter line is the explicit
\* model of the line itself if present, else the model of its info, else
\* the model of the most recently seen context line, else gpt-5.
C23_ModelPrecedence_Claimed ==
  (res # <<>> /\ arg[1] \in ModelReads) =>
    /\ Len(res[1].entries) = 1
    /\ res[1].entries[1].model =
         normalizeCodexModel(FirstPresent(<<CounterOf(arg[1]).payload[1].model,
                                            CounterOf(arg[1]).model,
                                            InfoOf(arg[1]).model,
                                            ContextModel(arg[1]), MGpt5>>))

\* C23: the model of the event of a counter line is the model of its info
\* if present, else the model_name of its info, else the model of its
\* payload, else the model on the line object, else the model of the most
\* recently seen context line (carried across passes), else gpt-5.
C23_ModelPrecedence ==
  (res # <<>> /\ arg[1] \in ModelReads) =>
    /\ Len(res[1].entries) = 1
    /\ res[1].entries[1].model =
         normalizeCodexModel(FirstPresent(<<InfoOf(arg[1]).model,
                                            InfoOf(arg[1]).model_name,
                                            CounterOf(arg[1]).payload[1].model,
                                            CounterOf(arg[1]).model,
                                            ContextModel(arg[1]), MGpt5>>))

\* A counter line with a model on the line object and a model in its info
\* has been parsed after a context line: the event has the model of the info
C23_Witness ==
  /\ res # <<>> /\ arg[1] \in ModelReads
  /\ Len(arg[1].texts) = 2
  /\ CounterOf(arg[1]).model = MTop /\ InfoOf(arg[1]).model = MCodexRaw
  /\ res[1].entries[1].model = MGpt51

\* ------------------------------------------------------------------------
\* C22  Malformed lines are dropped without side effects
\* ------------------------------------------------------------------------
\* A usage sub-structure that holds none of its counts
NoCounts(u) ==
  /\ u # <<>>
  /\ u[1].input_tokens = NotANumber
  /\ u[1].cached_input_tokens = NotANumber
  /\ u[1].output_tokens = NotANumber

\* A counter line that lacks a field an event is made of
CounterLacksField(L) ==
  \/ L.timestamp \in {NoTs, BadTs}
  \/ L.payload = <<>>
  \/ L.payload[1].info = <<>>
  \/ /\ L.payload[1].info[1].total_token_usage = <<>>
     /\ L.payload[1].info[1].last_token_usage = <<>>
  \/ NoCounts(L.payload[1].info[1].total_token_usage)

\* A line that is not valid JSON or lacks a required field
Malformed(text) ==
  \/ text = <<>>
  \/ text[1].type = "event_msg" /\ CounterLacksField(text[1])
  \/ text[1].type = "turn_context" /\ text[1].payload = <<>>

\* The lines without the one at position k
Without(texts, k) == SubSeq(texts, 1, k - 1) \o SubSeq(texts, k + 1, Len(texts))

\* C22: a line that is not valid JSON or lacks a required field contributes
\* no event and changes neither the carried model nor the cumulative
\* totals: the events, the model and the totals parseFile returns are those
\* it returns for the same lines without the malformed one.
C22_MalformedDropped ==
  (res # <<>> /\ arg[1] \in LineReads) =>
    \A k \in 1..Len(arg[1].texts) :
      Malformed(arg[1].texts[k]) =>
        res[1] = CodexParse(Without(arg[1].texts, k), arg[1].initialModel,
                            arg[1].initialTotals)

\* ------------------------------------------------------------------------
\* PairManager: pairing-code rotation (pairManager.ts)
\* ------------------------------------------------------------------------
\* Time is counted in minutes.  w is the PairManager together with the
\* timers of the event loop: [pm |-> ..., timers |-> ...]; a timer is
\* [id |-> handle, due |-> instant of its next callback].

\* CODE_TTL_MS, in minutes
CODE_TTL_MS == 5

\* Minutes the clock runs for
MaxClock == 11

\* generateCode() calls the model follows
MaxCodes == 4

\* What randomString can make of the suffix: two calls can give the same code
Codes == {"CLAW-AAAA", "CLAW-BBBB"}

\* generateCode() at instant t, randomString having produced code
generateCode(p, code, t) ==
  [p EXCEPT !.currentCode = <<code>>, !.codeExpiry = t + CODE_TTL_MS]

\* isCodeValid() at instant t
isCodeValid(p, t) == IF p.currentCode = <<>> THEN FALSE ELSE t < p.codeExpiry

\* getCurrentCode() at instant t, <<>> for null
getCurrentCode(p, t) == IF ~isCodeValid(p, t) THEN <<>> ELSE p.currentCode

\* stopRotation()
stopRotation(w) ==
  IF w.pm.rotationTimer # <<>>
  THEN [pm |-> [w.pm EXCEPT !.rotationTimer = <<>>],
        timers |-> {x \in w.timers : x.id # w.pm.rotationTimer[1]}]
  ELSE w

\* startRotation() without its call of stopRotation()
startRotation_NoStop(w, code, t, id) ==
  [pm |-> [generateCode(w.pm, code, t) EXCEPT !.rotationTimer = <<id>>],
   timers |-> w.timers \cup {[id |-> id, due |-> t + CODE_TTL_MS]}]

\* startRotation() at instant t; id is the handle setInterval returns
startRotation(w, code, t, id) ==
  [pm |-> [generateCode(stopRotation(w).pm, code, t) EXCEPT !.rotationTimer = <<id>>],
   timers |-> stopRotation(w).timers \cup {[id |-> id, due |-> t + CODE_TTL_MS]}]

StartRotation(code) ==
  /\ ncodes < MaxCodes
  /\ \E w \in {startRotation([pm |-> pm, timers |-> timers], code, clock, ncodes + 1)} :
       pm' = w.pm /\ timers' = w.timers
  /\ ncodes' = ncodes + 1
  /\ genAt' = clock
  /\ UNCHANGED <<fmt, queryVars, count, arg, res, threw, extVars, clock, fileVars, npass, scanVars, ledgerVars, fragVars>>

StopRotation ==
  /\ \E w \in {stopRotation([pm |-> pm, timers |-> timers])} :
       pm' = w.pm /\ timers' = w.timers
  /\ UNCHANGED <<fmt, queryVars, count, arg, res, threw, extVars, clock, ncodes, genAt, fileVars, npass, scanVars, ledgerVars, fragVars>>

\* The callback of an interval timer that is due: generateCode(), and the
\* timer is set for one interval later
RotationTimer(x, code) ==
  /\ x \in timers /\ x.due <= clock
  /\ ncodes < MaxCodes
  /\ pm' = generateCode(pm, code, clock)
  /\ timers' = (timers \ {x}) \cup {[x EXCEPT !.due = x.due + CODE_TTL_MS]}
  /\ ncodes' = ncodes + 1
  /\ genAt' = clock
  /\ UNCHANGED <<fmt, queryVars, count, arg, res, threw, extVars, clock, fileVars, npass, scanVars, ledgerVars, fragVars>>

\* A minute passes; the event loop runs the callback of a timer when it is due
Minute ==
  /\ clock < MaxClock
  /\ \A x \in timers : x.due > clock
  /\ clock' = clock + 1
  /\ UNCHANGED <<fmt, queryVars, count, arg, res, threw, extVars, pm, timers, ncodes, genAt, fileVars, npass, scanVars, ledgerVars, fragVars>>

InitPair ==
  /\ InitCommon
  /\ fmt = "claude" /\ db = EmptyStore
  /\ frag1 = <<>> /\ frag2 = <<>> /\ fstep = "off"

NextPair ==
  \/ \E code \in Codes : StartRotation(code)
  \/ StopRotation
  \/ \E x \in timers : \E code \in Codes : RotationTimer(x, code)
  \/ Minute

SpecPair == InitPair /\ [][NextPair]_vars

\* ------------------------------------------------------------------------
\* C29  Pairing-code rotation
\* ------------------------------------------------------------------------
\* A rotation is on
Rotating == pm.rotationTimer # <<>>

\* C29: a startRotation() call leaves a valid code at once and exactly one
\* timer, whatever was running before; while the rotation is on, every code
\* the timer generates comes 5 minutes after the one it replaces, and no
\* code gets older than 5 minutes; once stopRotation() was called no timer is
\* left and no code is generated, and getCurrentCode() gives the last code
\* until 5 minutes after it was generated and null from then on.
C29_Rotation ==
  [][/\ (\E code \in Codes : StartRotation(code)) =>
          /\ getCurrentCode(pm', clock') # <<>>
          /\ Cardinality(timers') = 1
          /\ \A x \in timers' : x.id = pm'.rotationTimer[1] /\ x.due = clock' + CODE_TTL_MS
     /\ (\E x \in timers : \E code \in Codes : RotationTimer(x, code)) =>
          /\ genAt' = genAt + CODE_TTL_MS
          /\ getCurrentCode(pm', clock') # <<>>
          /\ Cardinality(timers') = 1
     /\ Rotating' => clock' <= genAt' + CODE_TTL_MS
     /\ ~Rotating' =>
          /\ timers' = {}
          /\ (\A code \in Codes : ~StartRotation(code)) => ncodes' = ncodes
          /\ ncodes' > 0 =>
               getCurrentCode(pm', clock') =
                 (IF clock' < genAt' + CODE_TTL_MS THEN pm'.currentCode ELSE <<>>)
          /\ ncodes' = 0 => getCurrentCode(pm', clock') = <<>>]_vars

\* The rotation was started twice and replaced a code, then it was stopped;
\* 5 minutes after the last code was generated no code is current
C29_Witness ==
  /\ ~Rotating /\ ncodes = 3
  /\ clock = genAt + CODE_TTL_MS
  /\ pm.currentCode # <<>>
  /\ getCurrentCode(pm, clock) = <<>>

\* ------------------------------------------------------------------------
\* Scan passes in which a file-system call fails
\* ------------------------------------------------------------------------
\* The file-system call of a pass that fails on the way to the one path, or
\* "none": existsSync(root) answers false (the root directory is missing),
\* readdirSync throws in findJsonlFiles (the directory cannot be listed),
\* statSync throws in scanFile (the file vanished after it was listed),
\* openSync or readSync throws in parseFile (the file vanished or became
\* unreadable after the stat).
Faults == {"none", "existsSync", "readdirSync", "statSync", "openSync"}

\* scanFile when parseFile catches an error of openSync or readSync: the
\* parse gives no entry (and, for Codex, the model and totals it started
\* from), as the parse of no bytes does; size and mtimeMs are those of the
\* stat, which succeeded
ScanFileUnread(f, cached, size, mtimeMs) == ScanFile(f, cached, size, mtimeMs, <<>>)

\* scan() with the call fault failing: a path that is not found is not
\* touched and loses its cached state; a failed stat returns [] from
\* scanFile and leaves the cached state as it is
scanFaulted(f, fault, cached, size, mtimeMs, bytes) ==
  IF fault \in {"existsSync", "readdirSync"}
  THEN scan(f, FALSE, cached, size, mtimeMs, bytes)
  ELSE IF fault = "statSync"
  THEN [state |-> cached, ret |-> <<>>, parsed |-> 0]
  ELSE IF fault = "openSync"
  THEN ScanFileUnread(f, cached, size, mtimeMs)
  ELSE scan(f, TRUE, cached, size, mtimeMs, bytes)

\* The pass reaches openSync: the file is not empty and not a cache hit
ReachesOpen == Len(file) > 0 /\ ~IsCacheHit(fileStates, Len(file), mtime)

\* One call of scan() during which the call fault fails; arg keeps the fault
\* of the latest pass, threw whether scan() threw
ScanPassFaulted(fault) ==
  /\ pc = "idle" /\ npass < MaxPasses
  /\ fault = "openSync" => ReachesOpen
  /\ \E r \in {scanFaulted(fmt, fault, fileStates, Len(file), mtime, file)} :
         /\ fileStates' = r.state
         /\ returned' = r.ret
         /\ parsedLines' = r.parsed
  /\ npass' = npass + 1
  /\ dropped' = (dropped \/ (fault \in {"existsSync", "readdirSync"} /\ fileStates # <<>>))
  /\ arg' = <<fault>>
  /\ threw' = FALSE
  /\ UNCHANGED <<fmt, queryVars, count, res, pairVars, extVars, file, mtime, everPartial, exists, nrepl, pc, statSize, statMtimeMs, ledgerVars, fragVars>>

InitFault == Init

NextFault ==
  \/ \E l \in LineIds(fmt) : AppendLine(l)
  \/ \E fault \in Faults : ScanPassFaulted(fault)

SpecFault == InitFault /\ [][NextFault]_vars

\* ------------------------------------------------------------------------
\* C21  Transient I/O faults never propagate
\* ------------------------------------------------------------------------
\* The model follows one path, so the events of the other files are not
\* part of it: the formula is about the pass and the affected file.

\* C21: when the root directory is missing, the directory cannot be listed,
\* or the file vanishes or becomes unreadable between discovery and read,
\* scan() does not throw and returns no event of the affected file in that
\* pass.
C21_FaultsContained ==
  (arg # <<>> /\ arg[1] # "none") => (~threw /\ returned = <<>>)

\* ------------------------------------------------------------------------
\* C31  Ingestion is idempotent
\* ------------------------------------------------------------------------
\* C31: a scanLocalLogs() call made while the log file is as the call before
\* left it submits every cached event to logRequest again and leaves the
\* rows of the ledger exactly as they were.
C31_IngestionIdempotent ==
  [][(ScanLocalLogs /\ SourceUnchanged) =>
       /\ count' = Len(fileStates[1].entries)
       /\ db'.rows = db.rows]_vars

\* A call has re-submitted the cached events of an unchanged file to a
\* ledger that holds them
C31_Witness ==
  /\ SourceUnchanged /\ parsedLines = 0
  /\ count > 0 /\ count = Len(fileStates[1].entries)
  /\ db.rows # {}

\* ------------------------------------------------------------------------
\* The ledger under requests that differ in one member at a time
\* ------------------------------------------------------------------------
\* Requests that differ in the timestamp, the model (two names of one
\* canonical model), the source or one of the four token counts
DistinctRequests ==
  [timestamp : {0, 1}, provider : {"anthropic"}, model : {MClaudeOpus46Dated, MClaudeOpus46},
   inputTokens : {1, 2}, outputTokens : {1}, cacheReadInputTokens : {0, 1},
   cacheCreationInputTokens : {0, 1}, source : {"api", "claude-code"}]

InitDistinct ==
  /\ InitCommon
  /\ fmt = "claude" /\ db = EmptyStore
  /\ frag1 = <<>> /\ frag2 = <<>> /\ fstep = "off"

NextDistinct == \E e \in DistinctRequests : LogRequest(e, NoCost)

SpecDistinct == InitDistinct /\ [][NextDistinct]_vars

\* ------------------------------------------------------------------------
\* C32  Distinct usage events are all stored
\* ------------------------------------------------------------------------
\* The timestamp, provider, canonical model, source and four token counts
\* of an event, and of a stored record
EventTuple(e) ==
  <<e.timestamp, e.provider, normalizeModel(e.model, e.provider), e.source,
    e.inputTokens, e.outputTokens, e.cacheReadInputTokens, e.cacheCreationInputTokens>>
RecordTuple(r) ==
  <<r.timestamp, r.provider, r.model, r.source,
    r.input_tokens, r.output_tokens, r.cache_read_input_tokens, r.cache_creation_input_tokens>>

\* C32: a logRequest whose event differs from every stored record in at
\* least one of timestamp, provider, canonical model, source and the four
\* token counts adds a record that carries the event.
C32_DistinctEventsStored ==
  [][(/\ nreq' = nreq + 1
      /\ \A r \in db.rows : RecordTuple(r) # EventTuple(lastReq'[2])) =>
        /\ Cardinality(db'.rows) = Cardinality(db.rows) + 1
        /\ \E r \in db'.rows : RecordTuple(r) = EventTuple(lastReq'[2])]_vars

\* ------------------------------------------------------------------------
\* C33  A failed read does not consume bytes
\* ------------------------------------------------------------------------
\* C33: a pass in which openSync or readSync fails after a successful stat
\* leaves the cached state of the file (its offset, its carried model and
\* totals, its events) as it was before the pass.
C33_FailedReadKeepsState ==
  [][(npass' = npass + 1 /\ arg' = <<"openSync">>) => fileStates' = fileStates]_vars

\* ------------------------------------------------------------------------
\* A counter-oriented file of cumulative counter lines, scanned as it grows
\* ------------------------------------------------------------------------
\* In this scenario the file is held line by line: an element of file is the
\* object of one complete line, a size or an offset is a number of lines.
\* The writer appends whole lines, so a pass reads from a line boundary.

\* The highest total of a counter
MaxTotal == 2

\* Lines the writer appends
MaxCounterLines == 2

\* A cumulative counter line with timestamp ts and the totals i and o
TotalLine(ts, i, o) == CounterLine(ts, <<>>, <<>>, <<>>, <<>>, <<Tokens(i, 0, o)>>, <<>>)

\* The totals of a counter line of the file
TotalOf(L) == L.payload[1].info[1].total_token_usage[1]

\* parseFile(filePath, startOffset, ...) on the lines from startOffset on
CodexParseFrom(texts, startOffset, initialModel, initialTotals) ==
  CodexParse([k \in 1..(Len(texts) - startOffset) |-> <<texts[startOffset + k]>>],
             initialModel, initialTotals)

\* CodexScanTexts with the incremental parse started from no model and no
\* totals
CodexScanTexts_NoCarry(cached, size, mtimeMs, texts) ==
  IF size <= 0
  THEN [state |-> cached, ret |-> <<>>, parsed |-> 0]
  ELSE IF IsCacheHit(cached, size, mtimeMs)
  THEN [state |-> cached, ret |-> cached[1].entries, parsed |-> 0]
  ELSE IF IsIncremental(cached, size)
  THEN CodexStateSet(size, mtimeMs, cached[1].entries,
                     CodexParseFrom(texts, cached[1].lastOffset, <<>>, <<>>),
                     Len(texts) - cached[1].lastOffset)
  ELSE CodexStateSet(size, mtimeMs, <<>>, CodexParseFrom(texts, 0, <<>>, <<>>), Len(texts))

\* CodexLogScanner.scanFile on the file held line by line
CodexScanTexts(cached, size, mtimeMs, texts) ==
  IF size <= 0
  THEN [state |-> cached, ret |-> <<>>, parsed |-> 0]
  ELSE IF IsCacheHit(cached, size, mtimeMs)
  THEN [state |-> cached, ret |-> cached[1].entries, parsed |-> 0]
  ELSE IF IsIncremental(cached, size)
  THEN CodexStateSet(size, mtimeMs, cached[1].entries,
                     CodexParseFrom(texts, cached[1].lastOffset,
                                    cached[1].lastModel, cached[1].lastTotals),
                     Len(texts) - cached[1].lastOffset)
  ELSE CodexStateSet(size, mtimeMs, <<>>, CodexParseFrom(texts, 0, <<>>, <<>>), Len(texts))

\* The totals the file has reached
ReachedInput == IF file = <<>> THEN 0 ELSE TotalOf(file[Len(file)]).input_tokens
ReachedOutput == IF file = <<>> THEN 0 ELSE TotalOf(file[Len(file)]).output_tokens

\* The writer appends a cumulative counter line whose totals are not below
\* those of the line before; its timestamp is valid, missing or no date
AppendCounter(ts, i, o) ==
  /\ Len(file) < MaxCounterLines
  /\ i >= ReachedInput /\ o >= ReachedOutput
  /\ file' = Append(file, TotalLine(ts, i, o))
  /\ mtime' = mtime + 1
  /\ UNCHANGED <<fmt, queryVars, auxVars, everPartial, pathVars, npass, scanVars, ledgerVars, fragVars>>

\* One call of scan(), with nothing happening to the file during the pass
CounterPass ==
  /\ pc = "idle" /\ npass < MaxPasses
  /\ \E r \in {CodexScanTexts(fileStates, Len(file), mtime, file)} :
         /\ fileStates' = r.state
         /\ returned' = r.ret
         /\ parsedLines' = r.parsed
  /\ npass' = npass + 1
  /\ UNCHANGED <<fmt, queryVars, auxVars, fileVars, pc, statSize, statMtimeMs, ledgerVars, fragVars>>

InitCounter ==
  /\ InitCommon
  /\ fmt = "codex" /\ db = EmptyStore
  /\ frag1 = <<>> /\ frag2 = <<>> /\ fstep = "off"

NextCounter ==
  \/ \E ts \in {1, NoTs, BadTs} : \E i, o \in 0..MaxTotal : AppendCounter(ts, i, o)
  \/ CounterPass

SpecCounter == InitCounter /\ [][NextCounter]_vars

\* ------------------------------------------------------------------------
\* C34  Counter conservation
\* ------------------------------------------------------------------------
\* The sums of the input and of the output deltas of a list of events
RECURSIVE SumInput(_)
SumInput(es) == IF es = <<>> THEN 0 ELSE Head(es).inputTokens + SumInput(Tail(es))
RECURSIVE SumOutput(_)
SumOutput(es) == IF es = <<>> THEN 0 ELSE Head(es).outputTokens + SumOutput(Tail(es))

\* The passes have read the file as it is now
ReadToEnd == fileStates # <<>> /\ IsCacheHit(fileStates, Len(file), mtime)

\* The lines of the file that carry a valid timestamp
Dated == SelectSeq(file, LAMBDA L : L.timestamp \notin {NoTs, BadTs})

C35_CachedPricedOnce ==
  \A r \in db.rows :
    r.provider = "openai" =>
      r.estimated_cost =
        calculateCost(r.model, r.input_tokens - r.cache_read_input_tokens,
                      r.output_tokens, r.cache_read_input_tokens, 0)

\* ------------------------------------------------------------------------
\* One line through the pre-filters and the structured checks
\* ------------------------------------------------------------------------
\* The white space JSON allows between the colon and the value of "type"
Seps == {"", " ", "  ", "\t", " \t"}

\* The lines of a family, each written with every such white space
SepLines(f) ==
  { [LinesOf(f)[l] EXCEPT !.sep = s] : l \in LineIds(f), s \in Seps }

\* JSON.parse and the checks on the parsed object, of the Claude loop, for a
\* line the pre-filters are not applied to
ClaudeStructured(L) ==
  IF L.type # "assistant" THEN <<>>
  ELSE IF L.timestamp = NoTs THEN <<>>
  ELSE IF dayKeyFromISO(L.timestamp) = <<>> THEN <<>>
  ELSE IF L.message = <<>> THEN <<>>
  ELSE ClaudeMessage(L, L.message[1])

\* The same of the Codex loop
CodexStructured(acc, L) ==
  IF L.type = "turn_context" THEN CodexTurnContext(acc, L)
  ELSE IF L.type # "event_msg" THEN acc
  ELSE IF L.timestamp = NoTs THEN acc
  ELSE IF dayKeyFromISO(L.timestamp) = <<>> THEN acc
  ELSE IF L.payload = <<>> THEN acc
  ELSE CodexTokenCount(acc, L, L.payload[1])

\* The accumulator of the Codex loop at the start of a read that carries
\* the model m
CodexStart(m) == [entries |-> <<>>, currentModel |-> m, previousTotals |-> <<>>]

\* The iterations under study: a line and, for Codex, the carried model
FilterCalls ==
  [family : {"claude"}, line : SepLines("claude"), carried : {<<>>}] \cup
  [family : {"codex"}, line : SepLines("codex"), carried : {<<>>, MCarried}]

\* One iteration of the loop of parseFile on the line, as it is and with the
\* pre-filters left out
FilterLine ==
  /\ arg # <<>> /\ res = <<>>
  /\ res' = <<[filtered |-> IF arg[1].family = "claude" THEN ClaudeObject(arg[1].line)
                            ELSE CodexObject(CodexStart(arg[1].carried), arg[1].line),
               structured |-> IF arg[1].family = "claude" THEN ClaudeStructured(arg[1].line)
                              ELSE CodexStructured(CodexStart(arg[1].carried), arg[1].line)]>>
  /\ UNCHANGED <<fmt, queryVars, count, arg, threw, pairVars, extVars, fileVars, npass, scanVars, ledgerVars, fragVars>>

InitFilter ==
  /\ file = <<>> /\ mtime = 0 /\ everPartial = FALSE
  /\ exists = TRUE /\ nrepl = 0 /\ npass = 0 /\ dropped = FALSE
  /\ fileStates = <<>> /\ pc = "idle" /\ statSize = 0 /\ statMtimeMs = 0
  /\ returned = <<>> /\ parsedLines = 0
  /\ dbOpen = TRUE /\ now = 0 /\ nreq = 0 /\ lastReq = NoReq /\ lastDays = NoDays
  /\ fullEntries = <<>> /\ frag1 = <<>> /\ frag2 = <<>> /\ fstep = "off"
  /\ db = EmptyStore
  /\ summary = <<>> /\ costIn = NoArgs /\ costOut = NoCost
  /\ count = 0 /\ res = <<>> /\ threw = FALSE /\ InitPairManager /\ InitRelayClient /\ InitMonitor
  /\ \E c \in FilterCalls : arg = <<c>> /\ fmt = c.family

NextFilter == FilterLine

SpecFilter == InitFilter /\ [][NextFilter]_vars

\* ------------------------------------------------------------------------
\* C36  Pre-filters are a pure performance guard
\* ------------------------------------------------------------------------
\* C36: whatever white space the JSON of a line uses, the iteration gives
\* the same result with the substring pre-filters as without them: the
\* pre-filters reject no line that passes the structured checks.
C36_PreFiltersPure ==
  res # <<>> => res[1].filtered = res[1].structured

\* ------------------------------------------------------------------------
\* PairManager with codes issued by the relay
\* ------------------------------------------------------------------------
\* The codes the relay issues
RelayCodes == {"CLAW-RRRR", "CLAW-SSSS"}

\* setRelayCode(code) at instant t
setRelayCode(p, code, t) ==
  [p EXCEPT !.currentCode = <<code>>, !.codeExpiry = t + CODE_TTL_MS]

\* The relay's pair_code message arrives: onPairCode calls setRelayCode;
\* arg keeps the code and the instant of the latest call
SetRelayCode(code) ==
  /\ pm' = setRelayCode(pm, code, clock)
  /\ arg' = <<[code |-> code, at |-> clock]>>
  /\ UNCHANGED <<fmt, queryVars, count, res, threw, extVars, timers, clock, ncodes, genAt, fileVars, npass, scanVars, ledgerVars, fragVars>>

InitRelayCode == InitPair

NextRelayCode ==
  \/ \E code \in Codes : StartRotation(code)
  \/ StopRotation
  \/ \E x \in timers : \E code \in Codes : RotationTimer(x, code)
  \/ Minute
  \/ \E code \in RelayCodes : SetRelayCode(code)

SpecRelayCode == InitRelayCode /\ [][NextRelayCode]_vars

\* ------------------------------------------------------------------------
\* C40  Relay code authority
\* ------------------------------------------------------------------------
\* C40: from a setRelayCode(c) call until 5 minutes have elapsed or
\* setRelayCode is called again, getCurrentCode() returns c: no locally
\* generated code replaces the code of the relay while it is valid.
C40_RelayCodeAuthority ==
  (arg # <<>> /\ clock < arg[1].at + CODE_TTL_MS) =>
    getCurrentCode(pm, clock) = <<arg[1].code>>

\* ------------------------------------------------------------------------
\* RelayClient: connect, disconnect, the socket events, the timers
\* ------------------------------------------------------------------------
\* w is the RelayClient with the WebSockets it created and its pending
\* reconnect timeouts: [relay, sockets, nsock, retries].  A socket leaves
\* sockets when its close event has been delivered.

\* WebSockets the client creates
MaxSockets == 3

\* The world of the RelayClient as it is now
RelayWorld == [relay |-> relay, sockets |-> sockets, nsock |-> nsock, retries |-> retries]

\* The world w becomes the state
SetRelayWorld(w) ==
  /\ relay' = w.relay /\ sockets' = w.sockets /\ nsock' = w.nsock /\ retries' = w.retries

\* The sockets with socket id moved to readyState rs (no socket: no change)
WithReadyState(socks, id, rs) ==
  {IF s.id = id THEN [s EXCEPT !.readyState = rs] ELSE s : s \in socks}

\* The sockets that are open or being opened
Live(socks) == {s \in socks : s.readyState \in {"CONNECTING", "OPEN"}}

\* connect()
connect(w) ==
  IF w.relay.state \in {"connected", "connecting"} THEN w
  ELSE [relay |-> [w.relay EXCEPT !.shouldReconnect = TRUE, !.state = "connecting",
                                  !.ws = <<w.nsock + 1>>],
        sockets |-> w.sockets \cup {[id |-> w.nsock + 1, readyState |-> "CONNECTING"]},
        nsock |-> w.nsock + 1,
        retries |-> w.retries]

\* disconnect(): cleanup(), ws.close() and ws = null
disconnect(w) ==
  [w EXCEPT !.relay = [@ EXCEPT !.shouldReconnect = FALSE, !.heartbeatInterval = FALSE,
                                !.ws = <<>>, !.state = "disconnected"],
            !.sockets = IF w.relay.ws = <<>> THEN @
                        ELSE WithReadyState(@, w.relay.ws[1], "CLOSING")]

\* The 'open' handler of socket id: state, reconnectAttempts, the hello
\* message, startHeartbeat()
onOpen(w, id) ==
  [w EXCEPT !.sockets = WithReadyState(@, id, "OPEN"),
            !.relay = [@ EXCEPT !.state = "connected", !.reconnectAttempts = 0,
                                !.heartbeatInterval = TRUE, !.pongReceived = TRUE]]

\* reconnect(): the state, the attempt count and the setTimeout
reconnect(w) ==
  [w EXCEPT !.relay = [@ EXCEPT !.state = "reconnecting",
                                !.reconnectAttempts = @ + 1],
            !.retries = @ + 1]

\* The 'close' handler of socket id, the socket being closed by then:
\* cleanup(), and reconnect() if shouldReconnect
onClose(w, id) ==
  IF w.relay.shouldReconnect
  THEN reconnect([w EXCEPT !.sockets = {s \in @ : s.id # id},
                           !.relay = [@ EXCEPT !.heartbeatInterval = FALSE]])
  ELSE [w EXCEPT !.sockets = {s \in @ : s.id # id},
                 !.relay = [@ EXCEPT !.heartbeatInterval = FALSE]]

\* The callback of the setTimeout of reconnect()
onReconnectTimeout(w) ==
  IF w.relay.shouldReconnect
  THEN connect([w EXCEPT !.retries = @ - 1])
  ELSE [w EXCEPT !.retries = @ - 1]

\* The callback of the heartbeat interval: terminate() without a pong since
\* the last ping, else a ping
onHeartbeat(w) ==
  IF ~w.relay.pongReceived
  THEN [w EXCEPT !.sockets = IF w.relay.ws = <<>> THEN @
                             ELSE WithReadyState(@, w.relay.ws[1], "CLOSING")]
  ELSE [w EXCEPT !.relay = [@ EXCEPT !.pongReceived = FALSE]]

\* The 'pong' handler
onPong(w) == [w EXCEPT !.relay = [@ EXCEPT !.pongReceived = TRUE]]

\* What the relay actions leave alone
RelayUnchanged ==
  UNCHANGED <<fmt, queryVars, count, res, threw, pairVars, mon, fileVars, npass, scanVars, ledgerVars, fragVars>>

\* connect() is called; arg keeps the latest call of the two
RelayConnect ==
  /\ nsock < MaxSockets
  /\ \E w \in {connect(RelayWorld)} : SetRelayWorld(w)
  /\ arg' = <<"connect">>
  /\ RelayUnchanged

\* disconnect() is called
RelayDisconnect ==
  /\ \E w \in {disconnect(RelayWorld)} : SetRelayWorld(w)
  /\ arg' = <<"disconnect">>
  /\ RelayUnchanged

\* The handshake of socket s completes
SocketOpen(s) ==
  /\ s \in sockets /\ s.readyState = "CONNECTING"
  /\ \E w \in {onOpen(RelayWorld, s.id)} : SetRelayWorld(w)
  /\ UNCHANGED arg /\ RelayUnchanged

\* The close event of socket s is delivered: the handshake failed, the
\* connection dropped, or close() or terminate() was called on it
SocketClose(s) ==
  /\ s \in sockets
  /\ \E w \in {onClose(RelayWorld, s.id)} : SetRelayWorld(w)
  /\ UNCHANGED arg /\ RelayUnchanged

\* A reconnect timeout fires
ReconnectTimeout ==
  /\ retries > 0 /\ nsock < MaxSockets
  /\ \E w \in {onReconnectTimeout(RelayWorld)} : SetRelayWorld(w)
  /\ UNCHANGED arg /\ RelayUnchanged

\* The heartbeat interval fires
Heartbeat ==
  /\ relay.heartbeatInterval
  /\ \E w \in {onHeartbeat(RelayWorld)} : SetRelayWorld(w)
  /\ UNCHANGED arg /\ RelayUnchanged

\* A pong arrives on the open socket s
Pong(s) ==
  /\ s \in sockets /\ s.readyState = "OPEN"
  /\ \E w \in {onPong(RelayWorld)} : SetRelayWorld(w)
  /\ UNCHANGED arg /\ RelayUnchanged

InitRelay == InitPair

NextRelay ==
  \/ RelayConnect
  \/ RelayDisconnect
  \/ \E s \in sockets : SocketOpen(s)
  \/ \E s \in sockets : SocketClose(s)
  \/ ReconnectTimeout
  \/ Heartbeat
  \/ \E s \in sockets : Pong(s)

SpecRelay == InitRelay /\ [][NextRelay]_vars

\* ------------------------------------------------------------------------
\* C39  Single relay connection
\* ------------------------------------------------------------------------
\* The current socket is open
CurrentOpen ==
  relay.ws # <<>> /\ \E s \in sockets : s.id = relay.ws[1] /\ s.readyState = "OPEN"

\* C39: whatever connect(), disconnect() and the socket events have done,
\* at most one WebSocket is open or being opened, and the state is
\* 'connected' whenever the current socket is open; after disconnect() no
\* WebSocket is created until connect() is called again.
C39_SingleConnection ==
  /\ [](Cardinality(Live(sockets)) <= 1)
  /\ [](CurrentOpen => relay.state = "connected")
  /\ [][nsock' > nsock => arg' = <<"connect">>]_vars

\* ------------------------------------------------------------------------
\* OpenClawMonitor: start, stop, restart and the timers of start
\* ------------------------------------------------------------------------
\* The monitor runs with the default configuration: tracker and relay
\* enabled, autoConnect on.  w is the monitor with the objects it owns:
\* [mon, rw, pw, dbOpen, db, fileStates, returned, count, summary], rw the
\* world of its RelayClient and pw its PairManager with the rotation timers.
\* A call on the tracker whose store is closed throws.

\* DEFAULT_CONFIG.aiUsage.retentionDays
DefaultRetentionDays == 30

MonitorWorld ==
  [mon |-> mon, rw |-> RelayWorld, pw |-> [pm |-> pm, timers |-> timers],
   dbOpen |-> dbOpen, db |-> db, fileStates |-> fileStates, returned |-> returned,
   count |-> count, summary |-> summary]

SetMonitorWorld(w) ==
  /\ mon' = w.mon /\ SetRelayWorld(w.rw)
  /\ pm' = w.pw.pm /\ timers' = w.pw.timers
  /\ dbOpen' = w.dbOpen /\ db' = w.db
  /\ fileStates' = w.fileStates /\ returned' = w.returned
  /\ count' = w.count /\ summary' = w.summary

\* setInterval(...) by the monitor: the handle is m.ntimers + 1
AddTimer(m, kind) ==
  [m EXCEPT !.timers = @ \cup {[id |-> m.ntimers + 1, kind |-> kind]}, !.ntimers = @ + 1]

\* tracker.scanLocalLogs() called by the handler who, r being what scan()
\* gives: the first logRequest throws when the store is closed
scanLocalLogs(w, f, r, who) ==
  IF r.ret # <<>> /\ ~w.dbOpen
  THEN [w EXCEPT !.fileStates = r.state, !.mon = [@ EXCEPT !.error = <<who>>]]
  ELSE [w EXCEPT !.fileStates = r.state, !.returned = r.ret, !.count = Len(r.ret),
                 !.db = LogEntries(@, f, r.ret)]

\* start() as far as pairManager.startRotation()
startBegin(w, code, t, id) ==
  [w EXCEPT !.mon = [AddTimer(w.mon, "status") EXCEPT
                       !.running = TRUE, !.error = <<>>,
                       !.statusInterval = <<w.mon.ntimers + 1>>],
            !.rw = connect(@),
            !.pw = startRotation(@, code, t, id)]

\* start() after its scanLocalLogs() call: the log scan interval
startInterval(w) ==
  IF w.mon.error # <<>> THEN w
  ELSE [w EXCEPT !.mon = [AddTimer(w.mon, "logScan") EXCEPT
                            !.logScanInterval = <<w.mon.ntimers + 1>>]]

\* scheduleCleanup() at the end of start(): cleanupOldData now, then an
\* interval whose handle is not kept
scheduleCleanup(w, t) ==
  IF w.mon.error # <<>> THEN w
  ELSE IF ~w.dbOpen THEN [w EXCEPT !.mon = [@ EXCEPT !.error = <<"start">>]]
  ELSE [w EXCEPT !.db = [@ EXCEPT !.rows = cleanupOldData(@, DefaultRetentionDays, t)],
                 !.mon = AddTimer(@, "cleanup")]

\* start(): code is what randomString gives, t the instant, id the handle of
\* the rotation timer, r what scan() gives
start(w, code, t, id, f, r) ==
  IF w.mon.running THEN w
  ELSE scheduleCleanup(startInterval(scanLocalLogs(startBegin(w, code, t, id), f, r, "start")), t)

\* stop(): the two intervals it has handles of, the rotation, the relay,
\* and tracker.close()
stop(w) ==
  IF ~w.mon.running THEN w
  ELSE [w EXCEPT !.mon = [@ EXCEPT !.running = FALSE,
                                   !.statusInterval = <<>>, !.logScanInterval = <<>>,
                                   !.timers = {x \in @ : /\ <<x.id>> # w.mon.statusInterval
                                                         /\ <<x.id>> # w.mon.logScanInterval}],
                 !.pw = stopRotation(@),
                 !.rw = disconnect(@),
                 !.dbOpen = FALSE]

\* tick(): the exception of getUsageSummary is caught and logged
onStatusTick(w, t) ==
  IF ~w.mon.running THEN w
  ELSE IF ~w.dbOpen THEN [w EXCEPT !.mon = [@ EXCEPT !.error = <<"tick">>]]
  ELSE [w EXCEPT !.summary = <<getUsageSummary(w.db.rows, "today", t)>>]

\* The callback of the cleanup interval
onCleanup(w, t) ==
  IF ~w.dbOpen THEN [w EXCEPT !.mon = [@ EXCEPT !.error = <<"cleanup">>]]
  ELSE [w EXCEPT !.db = [@ EXCEPT !.rows = cleanupOldData(@, DefaultRetentionDays, t)]]

\* The callback of the timer x
onTimer(w, x, t, f, r) ==
  IF x.kind = "status" THEN onStatusTick(w, t)
  ELSE IF x.kind = "logScan" THEN scanLocalLogs(w, f, r, "logScan")
  ELSE onCleanup(w, t)

\* What the monitor actions leave alone
MonitorUnchanged ==
  UNCHANGED <<fmt, costIn, costOut, arg, res, threw, clock, fileVars, npass, pc, statSize,
              statMtimeMs, parsedLines, now, nreq, lastReq, lastDays, fragVars>>

\* What scan() gives for the log file as it is
ScanNow == ScanFile(fmt, fileStates, Len(file), mtime, file)

\* start() is called
MonitorStart(code) ==
  /\ ~mon.running /\ ncodes < MaxCodes /\ nsock < MaxSockets
  /\ \E w \in {start(MonitorWorld, code, clock, ncodes + 1, fmt, ScanNow)} : SetMonitorWorld(w)
  /\ ncodes' = ncodes + 1 /\ genAt' = clock
  /\ MonitorUnchanged

\* stop() is called
MonitorStop ==
  /\ mon.running
  /\ \E w \in {stop(MonitorWorld)} : SetMonitorWorld(w)
  /\ UNCHANGED <<ncodes, genAt>> /\ MonitorUnchanged

\* The 'restart' command: this.stop().then(() => this.start())
MonitorRestart(code) ==
  /\ mon.running /\ ncodes < MaxCodes /\ nsock < MaxSockets
  /\ \E w \in {start(stop(MonitorWorld), code, clock, ncodes + 1, fmt, ScanNow)} :
       SetMonitorWorld(w)
  /\ ncodes' = ncodes + 1 /\ genAt' = clock
  /\ MonitorUnchanged

\* An interval timer of the monitor fires
MonitorTimer(x) ==
  /\ x \in mon.timers
  /\ \E w \in {onTimer(MonitorWorld, x, now, fmt, ScanNow)} : SetMonitorWorld(w)
  /\ UNCHANGED <<ncodes, genAt>> /\ MonitorUnchanged

\* The log file: empty, or one qualifying line
InitLifecycle ==
  /\ \E ids \in {<<>>, <<1>>} : file = Concat(ids)
  /\ mtime = 0 /\ everPartial = FALSE
  /\ exists = TRUE /\ nrepl = 0 /\ npass = 0 /\ dropped = FALSE
  /\ fileStates = <<>> /\ pc = "idle" /\ statSize = 0 /\ statMtimeMs = 0
  /\ returned = <<>> /\ parsedLines = 0
  /\ dbOpen = TRUE /\ now = 0 /\ nreq = 0 /\ lastReq = NoReq /\ lastDays = NoDays
  /\ fullEntries = <<>> /\ frag1 = <<>> /\ frag2 = <<>> /\ fstep = "off"
  /\ fmt = "claude" /\ db = EmptyStore
  /\ summary = <<>> /\ costIn = NoArgs /\ costOut = NoCost
  /\ count = 0 /\ arg = <<>> /\ res = <<>> /\ threw = FALSE
  /\ InitPairManager /\ InitRelayClient /\ InitMonitor

NextLifecycle ==
  \/ \E code \in Codes : MonitorStart(code)
  \/ MonitorStop
  \/ \E code \in Codes : MonitorRestart(code)
  \/ \E x \in mon.timers : MonitorTimer(x)
  \/ \E s \in sockets : SocketOpen(s)
  \/ \E s \in sockets : SocketClose(s)

SpecLifecycle == InitLifecycle /\ [][NextLifecycle]_vars

\* ------------------------------------------------------------------------
\* C37  Stop clears all timers
\* ------------------------------------------------------------------------
\* C37: while the monitor is stopped no timer that start() created is
\* active, neither the status tick, the log scan, the retention cleanup nor
\* the code rotation, and no timer callback runs while it is stopped and
\* its ledger closed.
C37_StopClearsTimers ==
  /\ [](~mon.running => (mon.timers = {} /\ timers = {}))
  /\ [][(~mon.running /\ \E x \in mon.timers : MonitorTimer(x)) => dbOpen]_vars

\* ------------------------------------------------------------------------
\* C38  Restart yields a working monitor
\* ------------------------------------------------------------------------
\* C38: after a 'restart' command the monitor is running and its ledger is
\* open: the scanLocalLogs and the cleanup of the start succeed, and so
\* does the getUsageSummary of every later status tick.
C38_RestartWorks ==
  /\ [][(\E code \in Codes : MonitorRestart(code)) =>
          (mon'.running /\ dbOpen' /\ mon'.error = <<>>)]_vars
  /\ [](mon.running => mon.error # <<"tick">>)

====
